---- MODULE Spec2Model ----
(***************************************************************************)
(* WebpackAssetsManifest: the manifest store (set / setRaw / has / get),   *)
(* the customize pipeline, maybeMerge against the on-disk manifest, and    *)
(* the lock / merge / emit / write protocol of emitAssetsManifest and      *)
(* writeTo, for two build processes that share one manifest file.          *)
(*                                                                         *)
(* Strings (keys, file names, string values) are sequences of characters.  *)
(* A JavaScript value is a record [t, s, e]: t is its type, s the          *)
(* characters of a string, e the ordered entries of an object (or the      *)
(* elements of an array, their keys left empty).                           *)
(***************************************************************************)
EXTENDS Integers, Sequences, FiniteSets, TLC

VARIABLES
    calls,         \* history: how many set calls each process has made
    merges,        \* history: how many times maybeMerge was called on its own
    did,           \* history: the file system steps writeTo has performed
    options,       \* this.options, per process
    assets,        \* this.assets: the ordered entries of the manifest store
    currentAsset,  \* this.currentAsset
    isMerging,     \* this[ IS_MERGING ]
    warned,        \* messages warn.once has emitted
    pc,            \* where each process is in emitAssetsManifest / maybeMerge / writeTo
    ret,           \* where maybeMerge returns to (its caller)
    mergeData,     \* Object.entries( data ) still to be visited by the merge loop
    emitted,       \* the manifest asset handed to compilation.emitAsset
    err,           \* the error the current operation ended with
    disk,          \* the manifest file on disk, shared by the processes
    locks,         \* holder of each lock, 0 when free
    last,          \* history: what the last completed operation of a process was given and did
    assetNames,    \* this.assetNames: the ordered entries of the Map, each with the run it was set in
    compiler,      \* this.compiler
    hmrRegex,      \* this.hmrRegex
    compilationCounter, \* this[ COMPILATION_COUNTER ]
    tapped,        \* the compiler hooks that apply has tapped
    fired,         \* history: the hooks of the plugin that have been called
    compilation,   \* the compilation of the current run: its assets and assetsByChunkName
    pending,       \* the ( asset, key ) pairs handleAfterProcessAssets has still to set
    run,           \* history: how many runs have started
    inserted,      \* history: the keys setRaw was called with, in the order of their first call
    stack,         \* the compilations of the run that wait for a child compilation to end
    cycle          \* history: compilations started and post-processed, aborts, errors, set calls

buildVars == << assetNames, compiler, hmrRegex, compilationCounter, tapped, fired,
                compilation, pending, run, inserted, stack, cycle >>

vars == << calls, merges, did, options, assets, currentAsset, isMerging, warned, pc, ret, mergeData,
           emitted, err, disk, locks, last, buildVars >>

Procs == {1, 2}

----------------------------------------------------------------------------
(* JavaScript values *)

Str(s) == [t |-> "str", s |-> s, e |-> <<>>]
Obj(e) == [t |-> "obj", s |-> <<>>, e |-> e]
Arr(e) == [t |-> "arr", s |-> <<>>, e |-> e]
Undefined == [t |-> "undef", s |-> <<>>, e |-> <<>>]
Bool(b) == [t |-> IF b THEN "true" ELSE "false", s |-> <<>>, e |-> <<>>]
Entry(k, v) == [k |-> k, v |-> v]

\* a || b : the operand test of JavaScript's ||
Truthy(v) == ~(v.t \in {"undef", "false"} \/ (v.t = "str" /\ v.s = <<>>))

\* Object.prototype.hasOwnProperty on an ordered entry list
HasOwn(es, k) == \E i \in 1..Len(es) : es[i].k = k

\* obj[ k ]
Prop(es, k) ==
    IF HasOwn(es, k) THEN es[CHOOSE i \in 1..Len(es) : es[i].k = k].v ELSE Undefined

KeysOf(es) == {es[i].k : i \in 1..Len(es)}

Digits == << "0", "1", "2", "3", "4", "5", "6", "7", "8", "9" >>
isDigit(c) == \E i \in 1..Len(Digits) : Digits[i] = c
digitValue(c) == (CHOOSE i \in 1..Len(Digits) : Digits[i] = c) - 1

\* a key that is an array index: the decimal digits of a number, with no leading zero
isArrayIndex(k) ==
    /\ k # <<>>
    /\ \A i \in 1..Len(k) : isDigit(k[i])
    /\ Len(k) = 1 \/ k[1] # "0"

RECURSIVE arrayIndex(_)
arrayIndex(k) ==
    IF k = <<>> THEN 0
    ELSE 10 * arrayIndex(SubSeq(k, 1, Len(k) - 1)) + digitValue(k[Len(k)])

\* obj[ k ] = v : an existing property keeps its place; a new one goes last, unless it
\* is an array index: those come first in an object, in ascending order
PutProp(es, k, v) ==
    IF HasOwn(es, k)
    THEN [i \in 1..Len(es) |-> IF es[i].k = k THEN Entry(k, v) ELSE es[i]]
    ELSE IF isArrayIndex(k)
    THEN LET n == Cardinality({i \in 1..Len(es) :
                                  isArrayIndex(es[i].k) /\ arrayIndex(es[i].k) < arrayIndex(k)})
         IN SubSeq(es, 1, n) \o << Entry(k, v) >> \o SubSeq(es, n + 1, Len(es))
    ELSE Append(es, Entry(k, v))

\* helpers.isObject: a plain object, not an array, not a scalar
isObject(v) == v.t = "obj"

----------------------------------------------------------------------------
(* deepmerge( target, source, { arrayMerge: (destArray, srcArray) => srcArray } ) *)

isMergeableObject(v) == v.t \in {"obj", "arr"}

RECURSIVE deepmerge(_, _)
RECURSIVE mergeObject(_, _, _)

\* destination starts as the target's properties; each source property is merged
\* into the target's property of that name when both can be, and replaces it otherwise
mergeObject(target, dest, src) ==
    IF src = <<>> THEN dest
    ELSE LET h == Head(src)
             nv == IF /\ isMergeableObject(target)
                      /\ HasOwn(target.e, h.k)
                      /\ isMergeableObject(h.v)
                   THEN deepmerge(Prop(target.e, h.k), h.v)
                   ELSE h.v
         IN mergeObject(target, PutProp(dest, h.k, nv), Tail(src))

deepmerge(target, source) ==
    IF (source.t = "arr") # (target.t = "arr") THEN source
    ELSE IF source.t = "arr" THEN source
    ELSE Obj(mergeObject(target, IF isMergeableObject(target) THEN target.e ELSE <<>>, source.e))

----------------------------------------------------------------------------
(* Keys *)

\* a fixKey that leaves the key as it is
fixKeyUnchanged(key) == key

\* a fixKey that replaces the first backslash only
fixKeyFirstOnly(key) ==
    [i \in 1..Len(key) |->
        IF key[i] = "\\" /\ (\A j \in 1..(i - 1) : key[j] # "\\") THEN "/" ELSE key[i]]

\* key.replace( /\\/g, '/' )
fixKey(key) == [i \in 1..Len(key) |-> IF key[i] = "\\" THEN "/" ELSE key[i]]

\* fixKey for a key of any type: typeof key === 'string' ? key.replace( ... ) : key
fixKeyOfAnyType(k) == IF k.t = "str" THEN Str(fixKey(k.s)) ELSE k

\* lodash stringToPath: the segments of a key between its dots
RECURSIVE stringToPath(_, _)
stringToPath(key, seg) ==
    IF key = <<>> THEN << seg >>
    ELSE IF Head(key) = "." THEN << seg >> \o stringToPath(Tail(key), <<>>)
    ELSE stringToPath(Tail(key), Append(seg, Head(key)))

\* lodash hasPath with baseHas: every segment is an own property of the object reached so far
RECURSIVE hasPath(_, _)
hasPath(v, path) ==
    IF path = <<>> THEN TRUE
    ELSE /\ v.t = "obj"
         /\ HasOwn(v.e, Head(path))
         /\ hasPath(Prop(v.e, Head(path)), Tail(path))

\* lodash.has( object, key ): the key itself when it is a property (or has no dot), else the key as a path
lodashHas(es, key) ==
    IF HasOwn(es, key) \/ ~(\E i \in 1..Len(key) : key[i] = ".")
    THEN HasOwn(es, key)
    ELSE hasPath(Obj(es), stringToPath(key, <<>>))

has(es, key) == lodashHas(es, key) \/ lodashHas(es, fixKey(key))

get(es, key, defaultValue) ==
    IF Truthy(Prop(es, key)) THEN Prop(es, key)
    ELSE IF Truthy(Prop(es, fixKey(key))) THEN Prop(es, fixKey(key))
    ELSE defaultValue

\* a setRaw that also writes the normalized form of the key
setRawBothKeys(es, key, value) ==
    PutProp(PutProp(es, key, value),
            [i \in 1..Len(key) |-> IF key[i] = "\\" THEN "/" ELSE key[i]], value)

setRaw(es, key, value) == PutProp(es, key, value)

\* delete obj[ key ]: the property goes when the object has it, the result is true either way
deleteProperty(es, key) == SelectSeq(es, LAMBDA e : e.k # key)

DeleteResult(es, result) == [assets |-> es, result |-> result]

\* delete( key )
delete(es, key) ==
    IF lodashHas(es, key) THEN DeleteResult(deleteProperty(es, key), TRUE)
    ELSE IF lodashHas(es, fixKey(key)) THEN DeleteResult(deleteProperty(es, fixKey(key)), TRUE)
    ELSE DeleteResult(es, FALSE)

----------------------------------------------------------------------------
(* The customize pipeline: set *)

\* the prefix configured as options.publicPath in the configurations explored
PublicPathPrefix == << "/" >>

\* url.resolve( prefix, filename ) for the prefix "/": an absolute filename stays as it is
urlResolve(prefix, filename) ==
    IF filename # <<>> /\ Head(filename) = "/" THEN filename ELSE prefix \o filename

getPublicPath(opt, filename) ==
    IF filename.t = "str" /\ opt.publicPath = "prefix"
    THEN Str(urlResolve(PublicPathPrefix, filename.s))
    ELSE filename

NoAsset == [some |-> FALSE, name |-> <<>>, integrity |-> Undefined]
Asset(name, integrity) == [some |-> TRUE, name |-> name, integrity |-> integrity]

\* the digest read without the '' default
assetIntegrityNoDefault(asset) == asset.integrity

\* lodash get( this, `currentAsset.info.${ integrityPropertyName }`, '' )
assetIntegrity(asset) ==
    IF asset.some /\ asset.integrity.t # "undef" THEN asset.integrity ELSE Str(<<>>)

\* warn.once: a message is emitted the first time only
warnOnce(w, msg) == IF \E i \in 1..Len(w) : w[i] = msg THEN w ELSE Append(w, msg)

\* The result of this.hooks.customize.call(...): what the registered stages made of the
\* candidate entry. kind is "object" (with or without a key / value of its own: a
\* destructured property that is undefined takes its default), "false" (skip),
\* "nonobject" (of type vtype) or "throw" (a stage raised an error).
Hook(kind, hasKey, key, hasValue, value, vtype) ==
    [kind |-> kind, hasKey |-> hasKey, key |-> key, hasValue |-> hasValue,
     value |-> value, vtype |-> vtype]
HookPass == Hook("object", FALSE, <<>>, FALSE, Undefined, "Object")

\* value === publicPath for the value a stage returned: strings compare by content,
\* an object a stage built is never the object that was passed in
strictEquals(a, b) == a.t = "str" /\ b.t = "str" /\ a.s = b.s

SrcKey == << "s", "r", "c" >>
IntegrityKey == << "i", "n", "t", "e", "g", "r", "i", "t", "y" >>

integrityEntry(src, asset) ==
    Obj(<< Entry(SrcKey, src), Entry(IntegrityKey, assetIntegrity(asset)) >>)

SetResult(es, w, threw) == [assets |-> es, warned |-> w, threw |-> threw]

\* a set that goes to setRaw whenever a merge is in progress
bypassesWheneverMerging(opt, merging) == merging

\* this.isMerging && this.options.merge !== 'customize'
bypassesPipeline(opt, merging) == merging /\ opt.merge # "customize"

\* set( key, value ) on a manifest with options opt, merging flag, current asset,
\* emitted warnings w and entries es, the customize chain answering hook
set(opt, merging, asset, w, es, key, value, hook) ==
    IF bypassesPipeline(opt, merging)
    THEN SetResult(setRaw(es, key, value), w, FALSE)
    ELSE LET fixedKey == fixKey(key)
             publicPath == getPublicPath(opt, value)
         IN CASE hook.kind = "throw" -> SetResult(es, w, TRUE)
              [] hook.kind = "false" -> SetResult(es, w, FALSE)
              [] hook.kind = "object" ->
                    LET k == IF hook.hasKey THEN hook.key ELSE fixedKey
                        v == IF hook.hasValue THEN hook.value ELSE publicPath
                        same == ~hook.hasValue \/ strictEquals(v, publicPath)
                    IN SetResult(setRaw(es, k, IF same /\ opt.integrity
                                                 THEN integrityEntry(v, asset)
                                                 ELSE v), w, FALSE)
              [] OTHER ->
                    SetResult(setRaw(es, fixedKey, publicPath),
                              warnOnce(w, hook.vtype), FALSE)

----------------------------------------------------------------------------
(* The manifest file and the history of the last operation *)

File(st, doc) == [st |-> st, doc |-> doc]
FileMissing == File("missing", Undefined)

\* a call of set made by maybeMerge: its arguments and the manifest it was made on
SetCallOf(key, value, before, wbefore, hook, merging) ==
    [called |-> TRUE, key |-> key, value |-> value, before |-> before,
     wbefore |-> wbefore, hook |-> hook, merging |-> merging]
NoSetCall ==
    [called |-> FALSE, key |-> <<>>, value |-> Undefined, before |-> <<>>,
     wbefore |-> <<>>, hook |-> HookPass, merging |-> FALSE]

NoLast ==
    [op |-> "none", before |-> <<>>, wbefore |-> <<>>, key |-> <<>>, value |-> Undefined,
     hook |-> HookPass, asset |-> NoAsset, threw |-> FALSE, file |-> FileMissing,
     prevOp |-> "none", prevFile |-> FileMissing, prevClean |-> FALSE, clean |-> TRUE,
     result |-> Undefined, info |-> <<>>, inner |-> NoSetCall]

md5 == << "m", "d", "5" >>
sha1 == << "s", "h", "a", "1" >>
sha256 == << "s", "h", "a", "2", "5", "6" >>
sha384 == << "s", "h", "a", "3", "8", "4" >>
sha512 == << "s", "h", "a", "5", "1", "2" >>

\* the algorithms helpers.filterHashes lets through
KnownHashes == {md5, sha1, sha256, sha384, sha512}

DefaultOptions ==
    [merge |-> "off", integrity |-> FALSE, publicPath |-> "none",
     sortManifest |-> TRUE, writeToDisk |-> FALSE, enabled |-> TRUE,
     integrityHashes |-> << sha256, sha384, sha512 >>, space |-> 2,
     contextRelativeKeys |-> FALSE]

\* this.hmrRegex: null, or the pattern made of a hot-update filename template
NoRegExp == [some |-> FALSE, pattern |-> <<>>]
RegExp(pattern) == [some |-> TRUE, pattern |-> pattern]

\* a compilation of the host: getAssets(), getStats().toJson().assetsByChunkName
\* and the asset modules of its chunks, as ( sourceFilename, filename ) pairs
Compilation(as, byChunk, modules) ==
    [assets |-> as, assetsByChunkName |-> byChunk, modules |-> modules]
NoCompilation == Compilation(<<>>, <<>>, <<>>)

\* the history of the runs: handleCompilation calls, handleAfterProcessAssets calls that
\* reached their end, the child compilations of the run, whether the host has aborted a
\* run, whether a customize stage has raised an error in a run, the set calls of the
\* handleAfterProcessAssets under way, and whether hooks.customize and hooks.options
\* have stages tapped
NoCycle ==
    [started |-> 0, ended |-> 0, children |-> 0, aborted |-> FALSE, threw |-> FALSE,
     sets |-> <<>>, customize |-> "some", options |-> "none"]

----------------------------------------------------------------------------
(* The inputs explored *)

MaxSets == 2

kA == << "a" >>
kAJ == << "a", ".", "j" >>
kBack == << "d", "\\", "k" >>
kFwd == << "d", "/", "k" >>

SetKeys == {kA, kBack, kFwd}
SetValues == {Str(<< "x" >>), Str(<<>>), Obj(<< Entry(<< "s" >>, Str(<< "1" >>)) >>)}
SetSeeds ==
    { <<>>,
      << Entry(kFwd, Str(<< "y" >>)), Entry(kA, Str(<< "x" >>)) >> }

Hooks ==
    { HookPass,
      Hook("false", FALSE, <<>>, FALSE, Undefined, "Boolean"),
      Hook("throw", FALSE, <<>>, FALSE, Undefined, "Error"),
      Hook("object", TRUE, kA, FALSE, Undefined, "Object"),
      Hook("object", FALSE, <<>>, TRUE, Str(<< "x" >>), "Object"),
      Hook("object", FALSE, <<>>, TRUE, Str(<< "/", "x" >>), "Object"),
      Hook("object", TRUE, kBack, TRUE, Obj(<< Entry(<< "s" >>, Str(<< "1" >>)) >>), "Object"),
      Hook("nonobject", FALSE, <<>>, FALSE, Undefined, "String"),
      Hook("nonobject", FALSE, <<>>, FALSE, Undefined, "Boolean") }

CompilationAssets ==
    { Asset(<< "x" >>, Undefined), Asset(<< "x" >>, Str(<< "s", "h", "a" >>)) }

----------------------------------------------------------------------------
(* set called on the manifest, and set called for one key of one asset *)

SetLast(p, key, value, hook, asset, r) ==
    [NoLast EXCEPT !.op = "set", !.before = assets[p], !.wbefore = warned[p],
                   !.key = key, !.value = value, !.hook = hook, !.asset = asset,
                   !.threw = r.threw]

\* manifest.set( key, value ), called by the user of the plugin
SetCall(p) ==
    /\ pc[p] = "idle"
    /\ calls[p] < MaxSets
    /\ \E key \in SetKeys, value \in SetValues, hook \in Hooks :
          LET r == set(options[p], isMerging[p], currentAsset[p], warned[p],
                       assets[p], key, value, hook)
          IN /\ assets' = [assets EXCEPT ![p] = r.assets]
             /\ warned' = [warned EXCEPT ![p] = r.warned]
             /\ err' = [err EXCEPT ![p] = IF r.threw THEN "customize" ELSE "none"]
             /\ last' = [last EXCEPT ![p] = SetLast(p, key, value, hook, currentAsset[p], r)]
    /\ calls' = [calls EXCEPT ![p] = @ + 1]
    /\ UNCHANGED << merges, did, options, currentAsset, isMerging, pc, ret, mergeData, emitted, disk, locks >>
    /\ UNCHANGED buildVars

\* handleAfterProcessAssets, one key of one asset:
\*   this.currentAsset = asset; this.set( key, asset.name ); this.currentAsset = null;
\* an error raised by a customize stage leaves the handler before the last assignment
ProcessAssetKey(p) ==
    /\ pc[p] = "idle"
    /\ calls[p] < MaxSets
    /\ \E key \in SetKeys, asset \in CompilationAssets, hook \in Hooks :
          LET r == set(options[p], isMerging[p], asset, warned[p],
                       assets[p], key, Str(asset.name), hook)
          IN /\ assets' = [assets EXCEPT ![p] = r.assets]
             /\ warned' = [warned EXCEPT ![p] = r.warned]
             /\ currentAsset' = [currentAsset EXCEPT ![p] = IF r.threw THEN asset ELSE NoAsset]
             /\ err' = [err EXCEPT ![p] = IF r.threw THEN "customize" ELSE "none"]
             /\ last' = [last EXCEPT ![p] = SetLast(p, key, Str(asset.name), hook, asset, r)]
    /\ calls' = [calls EXCEPT ![p] = @ + 1]
    /\ UNCHANGED << merges, did, options, isMerging, pc, ret, mergeData, emitted, disk, locks >>
    /\ UNCHANGED buildVars

\* the state after the constructor, the history of the runs apart
InitProcBut(opts, seeds, file) ==
    /\ calls = [p \in Procs |-> 0]
    /\ merges = [p \in Procs |-> 0]
    /\ did = [p \in Procs |-> {}]
    /\ options = opts
    /\ assets = seeds
    /\ currentAsset = [p \in Procs |-> NoAsset]
    /\ isMerging = [p \in Procs |-> FALSE]
    /\ warned = [p \in Procs |-> <<>>]
    /\ pc = [p \in Procs |-> "idle"]
    /\ ret = [p \in Procs |-> "idle"]
    /\ mergeData = [p \in Procs |-> <<>>]
    /\ emitted = [p \in Procs |-> FileMissing]
    /\ err = [p \in Procs |-> "none"]
    /\ disk = file
    /\ locks = [k \in {"emit", "write"} |-> 0]
    /\ last = [p \in Procs |-> NoLast]
    /\ assetNames = [p \in Procs |-> <<>>]
    /\ compiler = [p \in Procs |-> "null"]
    /\ hmrRegex = [p \in Procs |-> NoRegExp]
    /\ compilationCounter = [p \in Procs |-> 0]
    /\ tapped = [p \in Procs |-> {}]
    /\ fired = [p \in Procs |-> {}]
    /\ compilation = [p \in Procs |-> NoCompilation]
    /\ pending = [p \in Procs |-> <<>>]
    /\ run = [p \in Procs |-> 0]
    /\ inserted = [p \in Procs |-> <<>>]
    /\ stack = [p \in Procs |-> <<>>]

\* the state of a process after the constructor, with its options and seed assets
InitProc(opts, seeds, file) ==
    /\ InitProcBut(opts, seeds, file)
    /\ cycle = [p \in Procs |-> NoCycle]

\* one manifest, merge off: every integrity and publicPath setting, with seed entries
InitSet ==
    \E integrity \in BOOLEAN, publicPath \in {"none", "prefix"}, seed \in SetSeeds :
        InitProc([p \in Procs |-> IF p = 1
                                  THEN [DefaultOptions EXCEPT !.integrity = integrity,
                                                              !.publicPath = publicPath]
                                  ELSE DefaultOptions],
                 [p \in Procs |-> IF p = 1 THEN seed ELSE <<>>],
                 FileMissing)

NextSet == SetCall(1) \/ ProcessAssetKey(1)

SpecSet == InitSet /\ [][NextSet]_vars

----------------------------------------------------------------------------
(* toString: the transform stage of the constructor, then JSON.stringify *)

Alphabet ==
    << "a", "b", "c", "d", "e", "f", "g", "h", "i", "j", "k", "l", "m",
       "n", "o", "p", "q", "r", "s", "t", "u", "v", "w", "x", "y", "z" >>

\* the UTF-16 code unit of a character, which Array.prototype.sort compares keys by
codeUnit(c) ==
    CASE c = "." -> 46
      [] c = "/" -> 47
      [] isDigit(c) -> 48 + digitValue(c)
      [] c = "\\" -> 92
      [] OTHER -> 96 + (CHOOSE i \in 1..Len(Alphabet) : Alphabet[i] = c)

RECURSIVE keyLess(_, _)
keyLess(a, b) ==
    IF b = <<>> THEN FALSE
    ELSE IF a = <<>> THEN TRUE
    ELSE IF codeUnit(Head(a)) # codeUnit(Head(b)) THEN codeUnit(Head(a)) < codeUnit(Head(b))
    ELSE keyLess(Tail(a), Tail(b))

RECURSIVE insertSorted(_, _)
insertSorted(sorted, entry) ==
    IF sorted = <<>> THEN << entry >>
    ELSE IF keyLess(entry.k, Head(sorted).k) THEN << entry >> \o sorted
    ELSE << Head(sorted) >> \o insertSorted(Tail(sorted), entry)

\* Object.keys( object ).sort(): the entries in the order of their sorted keys
RECURSIVE sortedEntries(_)
sortedEntries(es) ==
    IF es = <<>> THEN <<>>
    ELSE insertSorted(sortedEntries(SubSeq(es, 1, Len(es) - 1)), es[Len(es)])

\* a new object that is given the entries one after the other
RECURSIVE objectOf(_)
objectOf(es) ==
    IF es = <<>> THEN <<>>
    ELSE PutProp(objectOf(SubSeq(es, 1, Len(es) - 1)), es[Len(es)].k, es[Len(es)].v)

\* helpers.getSortedObject: a new object that is given the entries in the order of
\* their sorted keys
getSortedObject(es) == objectOf(sortedEntries(es))

\* the transform stage tapped in the constructor
transform(opt, es) == IF opt.sortManifest THEN getSortedObject(es) ELSE es

\* JSON.stringify: a property whose value is undefined is left out
RECURSIVE jsonEntries(_)
jsonEntries(es) ==
    IF es = <<>> THEN <<>>
    ELSE IF Head(es).v.t = "undef" THEN jsonEntries(Tail(es))
    ELSE << Entry(Head(es).k,
                  IF Head(es).v.t \in {"obj", "arr"}
                  THEN [Head(es).v EXCEPT !.e = jsonEntries(Head(es).v.e)]
                  ELSE Head(es).v) >> \o jsonEntries(Tail(es))

\* toString(): the text of the manifest, as the JSON document it encodes
toString(opt, es) == File("json", Obj(jsonEntries(transform(opt, es))))

\* JSON.parse( fs.readFileSync( this.getOutputPath() ) ): raises an error unless the
\* file is there, can be read and holds JSON
readManifest(file) ==
    IF file.st = "json" THEN [ok |-> TRUE, entries |-> file.doc.e]
    ELSE [ok |-> FALSE, entries |-> <<>>]

----------------------------------------------------------------------------
(* maybeMerge *)

MaxMerges == 2

\* a catch that raises the error again
rethrown(e) == e

\* catch (err) {} of maybeMerge: the error is dropped
caught(e) == "none"

\* the merging flag cleared on normal completion only
clearedUnlessFailed(failed) == failed

\* finally { this[ IS_MERGING ] = false; }
clearedInFinally(failed) == FALSE

\* the body of the loop over Object.entries( data )
mergeEntry(opt, merging, asset, w, es, key, oldValue, hook) ==
    IF has(es, key)
    THEN LET currentValue == get(es, key, Undefined)
         IN IF isObject(oldValue) /\ isObject(currentValue)
            THEN set(opt, merging, asset, w, es, key, deepmerge(oldValue, currentValue), hook)
            ELSE SetResult(es, w, FALSE)
    ELSE set(opt, merging, asset, w, es, key, oldValue, hook)

\* the call of set the body of the loop makes for one entry of the file, if it makes one
mergeEntrySetCall(merging, w, es, key, oldValue, hook) ==
    IF has(es, key)
    THEN LET currentValue == get(es, key, Undefined)
         IN IF isObject(oldValue) /\ isObject(currentValue)
            THEN SetCallOf(key, deepmerge(oldValue, currentValue), es, w, hook, merging)
            ELSE NoSetCall
    ELSE SetCallOf(key, oldValue, es, w, hook, merging)

\* what the customize chain may answer while a merge goes through set
MergeHooks == {HookPass, Hook("throw", FALSE, <<>>, FALSE, Undefined, "Error")}

\* what the registered stages would answer, were they called, while set goes to setRaw
BypassedHooks ==
    MergeHooks \cup { Hook("false", FALSE, <<>>, FALSE, Undefined, "Boolean"),
                      Hook("object", TRUE, kA, TRUE, Str(<< "x" >>), "Object") }

\* manifest.maybeMerge(), called on its own
CallMaybeMerge(p) ==
    /\ pc[p] = "idle"
    /\ merges[p] < MaxMerges
    /\ merges' = [merges EXCEPT ![p] = @ + 1]
    /\ pc' = [pc EXCEPT ![p] = "maybeMerge"]
    /\ ret' = [ret EXCEPT ![p] = "idle"]
    /\ UNCHANGED << calls, did, options, assets, currentAsset, isMerging, warned,
                    mergeData, emitted, err, disk, locks, last >>
    /\ UNCHANGED buildVars

\* if ( this.options.merge ) { try { this[ IS_MERGING ] = true;
MergeBegin(p) ==
    /\ pc[p] = "maybeMerge"
    /\ IF options[p].merge = "off"
       THEN /\ pc' = [pc EXCEPT ![p] = ret[p]]
            /\ last' = [last EXCEPT ![p] = [NoLast EXCEPT !.op = "nomerge",
                                                          !.before = assets[p]]]
            /\ UNCHANGED isMerging
       ELSE /\ isMerging' = [isMerging EXCEPT ![p] = TRUE]
            /\ pc' = [pc EXCEPT ![p] = "mergeRead"]
            /\ last' = [last EXCEPT ![p] =
                          [NoLast EXCEPT !.op = "merging", !.before = assets[p],
                                         !.wbefore = warned[p], !.prevOp = last[p].op,
                                         !.prevFile = last[p].file,
                                         !.prevClean = last[p].clean]]
    /\ UNCHANGED << calls, merges, did, options, assets, currentAsset, warned, ret,
                    mergeData, emitted, err, disk, locks >>
    /\ UNCHANGED buildVars

\* const data = JSON.parse( fs.readFileSync( ... ) ), and the catch when that fails
MergeRead(p) ==
    /\ pc[p] = "mergeRead"
    /\ LET r == readManifest(disk)
       IN /\ mergeData' = [mergeData EXCEPT ![p] = r.entries]
          /\ pc' = [pc EXCEPT ![p] = IF r.ok /\ r.entries # <<>>
                                     THEN "mergeLoop" ELSE "mergeFinally"]
          /\ err' = [err EXCEPT ![p] = IF r.ok THEN @ ELSE caught("read")]
          /\ last' = [last EXCEPT ![p].file = disk, ![p].threw = ~r.ok]
    /\ UNCHANGED << calls, merges, did, options, assets, currentAsset, isMerging, warned,
                    ret, emitted, disk, locks >>
    /\ UNCHANGED buildVars

\* one turn of the loop, and the catch when set raises a customize stage's error
MergeEntry(p) ==
    /\ pc[p] = "mergeLoop"
    /\ mergeData[p] # <<>>
    /\ \E hook \in (IF options[p].merge = "customize" THEN MergeHooks ELSE BypassedHooks) :
          LET e == Head(mergeData[p])
              r == mergeEntry(options[p], isMerging[p], currentAsset[p], warned[p],
                              assets[p], e.k, e.v, hook)
          IN /\ assets' = [assets EXCEPT ![p] = r.assets]
             /\ warned' = [warned EXCEPT ![p] = r.warned]
             /\ mergeData' = [mergeData EXCEPT ![p] = IF r.threw THEN <<>> ELSE Tail(@)]
             /\ pc' = [pc EXCEPT ![p] = IF r.threw \/ Tail(mergeData[p]) = <<>>
                                        THEN "mergeFinally" ELSE "mergeLoop"]
             /\ err' = [err EXCEPT ![p] = IF r.threw THEN caught("customize") ELSE @]
             /\ last' = [last EXCEPT ![p].threw = r.threw,
                                     ![p].clean = @ /\ (hook = HookPass
                                                          \/ options[p].merge # "customize"),
                                     ![p].inner = mergeEntrySetCall(isMerging[p], warned[p],
                                                                    assets[p], e.k, e.v, hook)]
    /\ UNCHANGED << calls, merges, did, options, currentAsset, isMerging, ret, emitted,
                    disk, locks >>
    /\ UNCHANGED buildVars

\* finally { this[ IS_MERGING ] = false; } and the return to the caller
MergeFinally(p) ==
    /\ pc[p] = "mergeFinally"
    /\ isMerging' = [isMerging EXCEPT ![p] = clearedInFinally(last[p].threw)]
    /\ pc' = [pc EXCEPT ![p] = IF err[p] = "none" THEN ret[p] ELSE "failed"]
    /\ last' = [last EXCEPT ![p].op = "merge"]
    /\ UNCHANGED << calls, merges, did, options, assets, currentAsset, warned, ret,
                    mergeData, emitted, err, disk, locks >>
    /\ UNCHANGED buildVars

----------------------------------------------------------------------------
(* emitAssetsManifest, the host's output of the emitted asset, handleAfterEmit / writeTo *)

\* helpers.lockSync / helpers.lock resolve only for a lock that nobody holds
canLock(key) == locks[key] = 0

Outside(p) ==
    UNCHANGED << calls, merges, options, assets, currentAsset, isMerging, warned,
                 mergeData, last, buildVars >>

\* emitAssetsManifest up to maybeMerge: lockSync( output ) when merge is enabled.
\* The lock is taken on the manifest's path relative to the output directory.
EmitBegin(p) ==
    /\ pc[p] \in {"idle", "emitAssets"}
    /\ IF options[p].merge = "off"
       THEN /\ pc' = [pc EXCEPT ![p] = "maybeMerge"]
            /\ UNCHANGED << locks, err >>
       ELSE \/ /\ canLock("emit")
               /\ locks' = [locks EXCEPT !["emit"] = p]
               /\ pc' = [pc EXCEPT ![p] = "maybeMerge"]
               /\ UNCHANGED err
            \/ /\ err' = [err EXCEPT ![p] = "lock"]
               /\ pc' = [pc EXCEPT ![p] = "failed"]
               /\ UNCHANGED locks
    /\ ret' = [ret EXCEPT ![p] = "emit"]
    /\ UNCHANGED << did, emitted, disk >>
    /\ Outside(p)

\* compilation.emitAsset( output, new RawSource( this.toString(), false ) ), then
\* unlockSync( output ) when merge is enabled; toString raises what a transform stage
\* or the replacer raises, and emitAsset may raise too
EmitAsset(p) ==
    /\ pc[p] = "emit"
    /\ \/ /\ emitted' = [emitted EXCEPT ![p] = toString(options[p], assets[p])]
          /\ locks' = [locks EXCEPT !["emit"] = IF options[p].merge = "off" THEN @ ELSE 0]
          /\ pc' = [pc EXCEPT ![p] = "emitted"]
          /\ UNCHANGED err
       \/ /\ err' = [err EXCEPT ![p] = "emit"]
          /\ pc' = [pc EXCEPT ![p] = "failed"]
          /\ UNCHANGED << emitted, locks >>
    /\ UNCHANGED << did, ret, disk >>
    /\ Outside(p)

\* the host writes the assets of the compilation to its output file system, which is
\* the disk or (under a dev server) memory, and then calls the afterEmit handlers
HostEmit(p) ==
    /\ pc[p] = "emitted"
    /\ \E toDisk \in BOOLEAN : disk' = IF toDisk THEN emitted[p] ELSE disk
    /\ pc' = [pc EXCEPT ![p] = "afterEmit"]
    /\ UNCHANGED << did, ret, emitted, err, locks >>
    /\ Outside(p)

\* handleAfterEmit when shouldWriteToDisk is false
AfterEmitDone(p) ==
    /\ pc[p] = "afterEmit"
    /\ ~options[p].writeToDisk
    /\ pc' = [pc EXCEPT ![p] = "done"]
    /\ UNCHANGED << did, ret, emitted, err, disk, locks >>
    /\ Outside(p)

\* a writeTo that goes on when the lock was not acquired
WriteToLockIgnoringFailure(p) ==
    /\ pc[p] = "afterEmit"
    /\ options[p].writeToDisk
    /\ \/ /\ canLock("write")
          /\ locks' = [locks EXCEPT !["write"] = p]
          /\ UNCHANGED err
       \/ /\ err' = [err EXCEPT ![p] = "lock"]
          /\ UNCHANGED locks
    /\ pc' = [pc EXCEPT ![p] = "mkdir"]
    /\ did' = [did EXCEPT ![p] = {}]
    /\ UNCHANGED << ret, emitted, disk >>
    /\ Outside(p)

\* handleAfterEmit when shouldWriteToDisk is true: writeTo, await lock( destination ).
\* The lock is taken on the absolute path of the manifest.
WriteToLock(p) ==
    /\ pc[p] = "afterEmit"
    /\ options[p].writeToDisk
    /\ \/ /\ canLock("write")
          /\ locks' = [locks EXCEPT !["write"] = p]
          /\ pc' = [pc EXCEPT ![p] = "mkdir"]
          /\ UNCHANGED err
       \/ /\ err' = [err EXCEPT ![p] = "lock"]
          /\ pc' = [pc EXCEPT ![p] = "rejected"]
          /\ UNCHANGED locks
    /\ did' = [did EXCEPT ![p] = {}]
    /\ UNCHANGED << ret, emitted, disk >>
    /\ Outside(p)

\* await fs.promises.mkdir( path.dirname( destination ), { recursive: true } )
WriteToMkdir(p) ==
    /\ pc[p] = "mkdir"
    /\ \/ /\ did' = [did EXCEPT ![p] = @ \cup {"mkdir"}]
          /\ pc' = [pc EXCEPT ![p] = "writeFile"]
          /\ UNCHANGED err
       \/ /\ err' = [err EXCEPT ![p] = "mkdir"]
          /\ pc' = [pc EXCEPT ![p] = "rejected"]
          /\ UNCHANGED did
    /\ UNCHANGED << ret, emitted, disk, locks >>
    /\ Outside(p)

\* await fs.promises.writeFile( destination, this.toString() )
WriteToWriteFile(p) ==
    /\ pc[p] = "writeFile"
    /\ \/ /\ disk' = toString(options[p], assets[p])
          /\ did' = [did EXCEPT ![p] = @ \cup {"writeFile"}]
          /\ pc' = [pc EXCEPT ![p] = "unlock"]
          /\ UNCHANGED err
       \/ /\ err' = [err EXCEPT ![p] = "writeFile"]
          /\ pc' = [pc EXCEPT ![p] = "rejected"]
          /\ UNCHANGED << disk, did >>
    /\ UNCHANGED << ret, emitted, locks >>
    /\ Outside(p)

\* await unlock( destination )
WriteToUnlock(p) ==
    /\ pc[p] = "unlock"
    /\ locks' = [locks EXCEPT !["write"] = 0]
    /\ pc' = [pc EXCEPT ![p] = "done"]
    /\ UNCHANGED << did, ret, emitted, err, disk >>
    /\ Outside(p)

----------------------------------------------------------------------------
(* One manifest merging with the file on disk *)

fS == << "s" >>
fH == << "h" >>
fJ == << "j" >>
fL == << "l" >>
fN == << "n" >>
One == Str(<< "1" >>)
X == Str(<< "x" >>)
Y == Str(<< "y" >>)
Z == Str(<< "z" >>)
Elem(v) == Entry(<<>>, v)

MergeSeeds ==
    { <<>>,
      << Entry(kA, Obj(<< Entry(fH, X) >>)) >>,
      << Entry(kA, Obj(<< Entry(fS, X), Entry(fL, Arr(<< Elem(X) >>)),
                          Entry(fN, Obj(<< Entry(fH, X) >>)), Entry(fJ, Y) >>)) >>,
      << Entry(kFwd, Obj(<< Entry(fS, Y) >>)), Entry(kA, X) >>,
      << Entry(kBack, Str(<<>>)), Entry(kFwd, Obj(<< Entry(fH, X) >>)) >> }

MergeFiles ==
    { FileMissing,
      File("unreadable", Undefined),
      File("invalid", Undefined),
      File("json", Obj(<< Entry(kA, Obj(<< Entry(fS, One) >>)) >>)),
      File("json", Obj(<< Entry(kA, Obj(<< Entry(fS, One),
                                            Entry(fL, Arr(<< Elem(Y), Elem(Y) >>)),
                                            Entry(fN, Obj(<< Entry(fS, One), Entry(fH, Y) >>)),
                                            Entry(fH, Arr(<< Elem(Y) >>)) >>)),
                          Entry(kAJ, Z) >>)),
      File("json", Obj(<< Entry(kBack, Obj(<< Entry(fS, One) >>)), Entry(kA, Y) >>)),
      File("json", Obj(<< Entry(kFwd, Z), Entry(kAJ, Z) >>)) }

InitMerge ==
    \E merge \in {"off", "on", "customize"}, integrity \in BOOLEAN,
       publicPath \in {"none", "prefix"}, seed \in MergeSeeds, file \in MergeFiles :
        InitProc([p \in Procs |-> IF p = 1
                                  THEN [DefaultOptions EXCEPT !.merge = merge,
                                                              !.integrity = integrity,
                                                              !.publicPath = publicPath]
                                  ELSE DefaultOptions],
                 [p \in Procs |-> IF p = 1 THEN seed ELSE <<>>],
                 file)

NextMerge ==
    \/ CallMaybeMerge(1)
    \/ MergeBegin(1)
    \/ MergeRead(1)
    \/ MergeEntry(1)
    \/ MergeFinally(1)
    \/ EmitBegin(1)
    \/ EmitAsset(1)

SpecMerge == InitMerge /\ [][NextMerge]_vars

\* what the customize chain answers to a set called after a merge
AfterMergeHooks ==
    { HookPass,
      Hook("throw", FALSE, <<>>, FALSE, Undefined, "Error"),
      Hook("object", TRUE, kA, FALSE, Undefined, "Object"),
      Hook("nonobject", FALSE, <<>>, FALSE, Undefined, "String") }

\* manifest.set( key, value ), called by the user once maybeMerge has returned
SetAfterMerge(p) ==
    /\ pc[p] = "idle"
    /\ last[p].op \in {"merge", "nomerge"}
    /\ \E key \in {kA, kBack}, value \in {Str(<< "x" >>)}, hook \in AfterMergeHooks :
          LET r == set(options[p], isMerging[p], currentAsset[p], warned[p],
                       assets[p], key, value, hook)
          IN /\ assets' = [assets EXCEPT ![p] = r.assets]
             /\ warned' = [warned EXCEPT ![p] = r.warned]
             /\ err' = [err EXCEPT ![p] = IF r.threw THEN "customize" ELSE "none"]
             /\ last' = [last EXCEPT ![p] = SetLast(p, key, value, hook, currentAsset[p], r)]
    /\ calls' = [calls EXCEPT ![p] = @ + 1]
    /\ UNCHANGED << merges, did, options, currentAsset, isMerging, pc, ret, mergeData,
                    emitted, disk, locks >>
    /\ UNCHANGED buildVars

\* a manifest file with a key that has a backslash, and one without
MergeSetFiles ==
    { File("invalid", Undefined),
      File("json", Obj(<< Entry(kBack, Obj(<< Entry(fS, One) >>)), Entry(kA, Y) >>)),
      File("json", Obj(<< Entry(kFwd, Z), Entry(kAJ, Z) >>)) }

InitMergeSet ==
    \E merge \in {"off", "on", "customize"}, integrity \in BOOLEAN,
       publicPath \in {"none", "prefix"},
       seed \in {<<>>, << Entry(kA, Obj(<< Entry(fH, X) >>)) >>}, file \in MergeSetFiles :
        InitProc([p \in Procs |-> IF p = 1
                                  THEN [DefaultOptions EXCEPT !.merge = merge,
                                                              !.integrity = integrity,
                                                              !.publicPath = publicPath]
                                  ELSE DefaultOptions],
                 [p \in Procs |-> IF p = 1 THEN seed ELSE <<>>],
                 file)

NextMergeSet ==
    \/ CallMaybeMerge(1)
    \/ MergeBegin(1)
    \/ MergeRead(1)
    \/ MergeEntry(1)
    \/ MergeFinally(1)
    \/ SetAfterMerge(1)

SpecMergeSet == InitMergeSet /\ [][NextMergeSet]_vars

----------------------------------------------------------------------------
(* Two build processes and one manifest file *)

InitBuilds ==
    \E m1 \in {"off", "on"}, m2 \in {"off", "on"}, w1 \in BOOLEAN, w2 \in BOOLEAN,
       file \in {FileMissing, File("json", Obj(<< Entry(kAJ, Z) >>))} :
        InitProc([p \in Procs |-> [DefaultOptions EXCEPT
                                      !.merge = IF p = 1 THEN m1 ELSE m2,
                                      !.writeToDisk = IF p = 1 THEN w1 ELSE w2]],
                 [p \in Procs |-> IF p = 1 THEN << Entry(kA, X) >>
                                           ELSE << Entry(kFwd, Y) >>],
                 file)

Next ==
    \E p \in Procs :
        \/ EmitBegin(p)
        \/ MergeBegin(p)
        \/ MergeRead(p)
        \/ MergeEntry(p)
        \/ MergeFinally(p)
        \/ EmitAsset(p)
        \/ HostEmit(p)
        \/ AfterEmitDone(p)
        \/ WriteToLock(p)
        \/ WriteToMkdir(p)
        \/ WriteToWriteFile(p)
        \/ WriteToUnlock(p)

Spec == InitBuilds /\ [][Next]_vars

----------------------------------------------------------------------------
(* has, get and delete called on a manifest *)

kMissing == << "q" >>
StoreKeys == {kA, kAJ, kBack, kFwd, kMissing}
Defaults == {Undefined, Str(<< "d" >>)}

StoreSeeds ==
    { <<>>,
      << Entry(kFwd, Str(<< "y" >>)), Entry(kA, Str(<< "x" >>)) >>,
      << Entry(kA, Obj(<< Entry(<< "j" >>, Str(<< "y" >>)) >>)) >>,
      << Entry(kAJ, Str(<< "z" >>)), Entry(kA, Obj(<< Entry(<< "j" >>, Str(<< "y" >>)) >>)) >>,
      << Entry(kBack, Str(<<>>)), Entry(kFwd, Str(<< "x" >>)) >>,
      << Entry(kBack, Str(<< "x" >>)), Entry(kA, Str(<<>>)) >> }

\* manifest.has( key )
HasCall(p) ==
    /\ pc[p] = "idle"
    /\ \E key \in StoreKeys :
          last' = [last EXCEPT ![p] = [NoLast EXCEPT !.op = "has", !.before = assets[p],
                                                     !.key = key,
                                                     !.result = Bool(has(assets[p], key))]]
    /\ UNCHANGED << calls, merges, did, options, assets, currentAsset, isMerging, warned,
                    pc, ret, mergeData, emitted, err, disk, locks >>
    /\ UNCHANGED buildVars

\* manifest.get( key, defaultValue )
GetCall(p) ==
    /\ pc[p] = "idle"
    /\ \E key \in StoreKeys, defaultValue \in Defaults :
          last' = [last EXCEPT ![p] = [NoLast EXCEPT !.op = "get", !.before = assets[p],
                                                     !.key = key, !.value = defaultValue,
                                                     !.result = get(assets[p], key, defaultValue)]]
    /\ UNCHANGED << calls, merges, did, options, assets, currentAsset, isMerging, warned,
                    pc, ret, mergeData, emitted, err, disk, locks >>
    /\ UNCHANGED buildVars

\* manifest.delete( key )
DeleteCall(p) ==
    /\ pc[p] = "idle"
    /\ \E key \in StoreKeys :
          LET r == delete(assets[p], key)
          IN /\ assets' = [assets EXCEPT ![p] = r.assets]
             /\ last' = [last EXCEPT ![p] = [NoLast EXCEPT !.op = "delete",
                                                           !.before = assets[p], !.key = key,
                                                           !.result = Bool(r.result)]]
    /\ UNCHANGED << calls, merges, did, options, currentAsset, isMerging, warned,
                    pc, ret, mergeData, emitted, err, disk, locks >>
    /\ UNCHANGED buildVars

InitStore ==
    \E seed \in StoreSeeds :
        InitProc([p \in Procs |-> DefaultOptions],
                 [p \in Procs |-> IF p = 1 THEN seed ELSE <<>>],
                 FileMissing)

NextStore == HasCall(1) \/ GetCall(1) \/ DeleteCall(1)

SpecStore == InitStore /\ [][NextStore]_vars

----------------------------------------------------------------------------
(* setRaw and toString called on a manifest *)

SerialKeys == {<< "b" >>, << "a" >>, << "2" >>, << "1", "0" >>}
SerialValues ==
    { Str(<< "x" >>),
      Obj(<< Entry(<< "s", "r", "c" >>, Str(<< "x" >>)),
             Entry(<< "i", "n", "t", "e", "g", "r", "i", "t", "y" >>, Str(<<>>)) >>) }

\* manifest.setRaw( key, value )
SetRawCall(p) ==
    /\ pc[p] = "idle"
    /\ \E key \in SerialKeys, value \in SerialValues :
          /\ assets' = [assets EXCEPT ![p] = setRaw(@, key, value)]
          /\ inserted' = [inserted EXCEPT ![p] =
                             IF \E i \in 1..Len(@) : @[i] = key THEN @ ELSE Append(@, key)]
          /\ last' = [last EXCEPT ![p] = [NoLast EXCEPT !.op = "setRaw", !.before = assets[p],
                                                        !.key = key, !.value = value]]
    /\ UNCHANGED << calls, merges, did, options, currentAsset, isMerging, warned, pc, ret,
                    mergeData, emitted, err, disk, locks, assetNames, compiler, hmrRegex,
                    compilationCounter, tapped, fired, compilation, pending, run,
                    stack, cycle >>

\* manifest.toString(): the transform stage returns the store or a new object, and
\* JSON.stringify reads what it is given
ToStringCall(p) ==
    /\ pc[p] = "idle"
    /\ last' = [last EXCEPT ![p] = [NoLast EXCEPT !.op = "toString", !.before = assets[p],
                                                  !.info = toString(options[p], assets[p])]]
    /\ UNCHANGED << calls, merges, did, options, assets, currentAsset, isMerging, warned,
                    pc, ret, mergeData, emitted, err, disk, locks >>
    /\ UNCHANGED buildVars

InitSerialize ==
    \E sortManifest \in BOOLEAN :
        InitProc([p \in Procs |-> [DefaultOptions EXCEPT !.sortManifest = sortManifest]],
                 [p \in Procs |-> <<>>],
                 FileMissing)

NextSerialize == SetRawCall(1) \/ ToStringCall(1)

SpecSerialize == InitSerialize /\ [][NextSerialize]_vars

----------------------------------------------------------------------------
(* fixKey called on its own, next to set *)

MaxKeyLen == 3
KeyChars == {"a", "\\"}

\* the strings of at most MaxKeyLen characters
KeyStrings == UNION {[1..n -> KeyChars] : n \in 0..MaxKeyLen}

\* keys that are not strings: a number, undefined, an object
NonStringKeys ==
    { [t |-> "num", s |-> << "7" >>, e |-> <<>>],
      Undefined,
      Obj(<< Entry(<< "\\" >>, Str(<< "\\" >>)) >>) }

\* manifest.fixKey( key ), called with a key of the caller's or with the result of the
\* fixKey call before it
FixKeyCall(p) ==
    /\ pc[p] = "idle"
    /\ \E key \in {Str(k) : k \in KeyStrings} \cup NonStringKeys, again \in BOOLEAN :
          /\ again => last[p].op = "fixKey"
          /\ LET arg == IF again THEN last[p].result ELSE key
             IN last' = [last EXCEPT ![p] =
                            [NoLast EXCEPT !.op = "fixKey",
                                           !.value = arg,
                                           !.result = fixKeyOfAnyType(arg),
                                           !.prevOp = IF again THEN "fixKey" ELSE "none"]]
    /\ UNCHANGED << calls, merges, did, options, assets, currentAsset, isMerging, warned,
                    pc, ret, mergeData, emitted, err, disk, locks >>
    /\ UNCHANGED buildVars

InitKeys ==
    InitProc([p \in Procs |-> DefaultOptions], [p \in Procs |-> <<>>], FileMissing)

NextKeys == FixKeyCall(1) \/ SetCall(1)

SpecKeys == InitKeys /\ [][NextKeys]_vars

----------------------------------------------------------------------------
(* The asset name index, hot-update files and integrity digests *)

\* what a [placeholder] of a filename template becomes in the pattern
Wildcard == "(.+?)"

\* the template after the "]" that closes a placeholder
RECURSIVE afterPlaceholder(_)
afterPlaceholder(t) ==
    IF t = <<>> THEN <<>>
    ELSE IF Head(t) = "]" THEN Tail(t)
    ELSE afterPlaceholder(Tail(t))

\* helpers.templateStringToRegExp: the characters of the template stand for themselves
\* and every [placeholder] for a wildcard; the pattern is matched against a whole name
RECURSIVE templateStringToRegExp(_)
templateStringToRegExp(t) ==
    IF t = <<>> THEN <<>>
    ELSE IF Head(t) = "[" THEN << Wildcard >> \o templateStringToRegExp(afterPlaceholder(Tail(t)))
    ELSE << Head(t) >> \o templateStringToRegExp(Tail(t))

\* RegExp.prototype.test for such a pattern: a wildcard takes one character or more
RECURSIVE regExpTest(_, _)
regExpTest(pattern, name) ==
    IF pattern = <<>> THEN name = <<>>
    ELSE IF Head(pattern) = Wildcard
         THEN \E n \in 1..Len(name) : regExpTest(Tail(pattern), SubSeq(name, n + 1, Len(name)))
         ELSE /\ name # <<>>
              /\ Head(name) = Head(pattern)
              /\ regExpTest(Tail(pattern), Tail(name))

isHMR(regex, filename) ==
    IF regex.some THEN regExpTest(regex.pattern, filename) ELSE FALSE

\* the index of the last occurrence of character c in name, 0 when there is none
lastIndexOf(name, c) ==
    IF \E i \in 1..Len(name) : name[i] = c
    THEN CHOOSE i \in 1..Len(name) :
            name[i] = c /\ \A j \in (i + 1)..Len(name) : name[j] # c
    ELSE 0

\* getExtension with the default fileExtRegex, for names without a query and without a
\* .map or .gz ending: the last dot and the word characters that follow it
getExtension(filename) ==
    LET i == lastIndexOf(filename, ".")
    IN IF i = 0 \/ i = Len(filename) THEN <<>> ELSE SubSeq(filename, i, Len(filename))

\* path.basename
basename(name) == SubSeq(name, lastIndexOf(name, "/") + 1, Len(name))

\* an entry of this.assetNames, with the run in which it was set
IndexEntry(k, v, r) == [k |-> k, v |-> v, run |-> r]

\* Map.prototype.set: an existing key keeps its place, a new one goes last
mapSet(names, k, v, r) ==
    IF \E i \in 1..Len(names) : names[i].k = k
    THEN [i \in 1..Len(names) |-> IF names[i].k = k THEN IndexEntry(k, v, r) ELSE names[i]]
    ELSE Append(names, IndexEntry(k, v, r))

\* helpers.findMapKeysByValue: the keys that map to the value, in the order of the Map
RECURSIVE findMapKeysByValue(_, _)
findMapKeysByValue(names, value) ==
    IF names = <<>> THEN <<>>
    ELSE (IF Head(names).v = value THEN << Head(names).k >> ELSE <<>>)
            \o findMapKeysByValue(Tail(names), value)

\* the files of one chunk: those that are not hot-update files are set in the index
RECURSIVE processChunkFiles(_, _, _, _, _)
processChunkFiles(names, regex, chunkName, files, r) ==
    IF files = <<>> THEN names
    ELSE processChunkFiles(
            IF isHMR(regex, Head(files)) THEN names
            ELSE mapSet(names, chunkName \o getExtension(Head(files)), Head(files), r),
            regex, chunkName, Tail(files), r)

RECURSIVE processAssetsByChunkName(_, _, _, _)
processAssetsByChunkName(names, regex, byChunk, r) ==
    IF byChunk = <<>> THEN names
    ELSE processAssetsByChunkName(
            processChunkFiles(names, regex, Head(byChunk).k, Head(byChunk).v, r),
            regex, Tail(byChunk), r)


\* crypto.createHash( algorithm ).update( content ).digest( 'base64' ): a text that
\* depends on the algorithm and the content, and on nothing else
base64Digest(algorithm, content) ==
    [i \in 1..Len(content) |-> content[Len(content) + 1 - i]] \o << algorithm[Len(algorithm)] >>

\* helpers.getSRIHash: one algorithm-digest token for each hash, joined by a space
RECURSIVE getSRIHash(_, _)
getSRIHash(hashes, content) ==
    IF hashes = <<>> THEN <<>>
    ELSE Head(hashes) \o << "-" >> \o base64Digest(Head(hashes), content)
            \o (IF Tail(hashes) = <<>> THEN <<>> ELSE << " " >> \o getSRIHash(Tail(hashes), content))

\* helpers.filterHashes: the known algorithms of the list, each once, in their order
RECURSIVE filterHashes(_)
filterHashes(hashes) ==
    IF hashes = <<>> THEN <<>>
    ELSE LET rest == filterHashes(SubSeq(hashes, 1, Len(hashes) - 1))
             h == hashes[Len(hashes)]
         IN IF h \in KnownHashes /\ ~(\E i \in 1..Len(rest) : rest[i] = h)
            THEN Append(rest, h) ELSE rest

\* an asset of compilation.getAssets(): its name, its content and, of its info, the
\* sourceFilename (empty when there is none) and the digest
CompAsset(name, source, sourceFilename, integrity) ==
    [name |-> name, source |-> source, sourceFilename |-> sourceFilename,
     integrity |-> integrity]

\* a recordSubresourceIntegrity that computes the digest of every asset
digestAlways(hashes, asset) ==
    [asset EXCEPT !.integrity = Str(getSRIHash(hashes, asset.source))]

\* the body of the loop of recordSubresourceIntegrity
digestUnlessRecorded(hashes, asset) ==
    IF ~Truthy(asset.integrity)
    THEN [asset EXCEPT !.integrity = Str(getSRIHash(hashes, asset.source))]
    ELSE asset

recordSubresourceIntegrity(hashes, as) ==
    [i \in 1..Len(as) |-> digestUnlessRecorded(hashes, as[i])]

\* handleProcessAssetsAnalyse: the info of the assets of the asset modules
RECURSIVE analysedAssets(_, _)
analysedAssets(as, modules) ==
    IF modules = <<>> THEN as
    ELSE analysedAssets(
            [i \in 1..Len(as) |-> IF as[i].name = Head(modules).v
                                  THEN [as[i] EXCEPT !.sourceFilename = Head(modules).k]
                                  ELSE as[i]],
            Tail(modules))

\* handleProcessAssetsAnalyse: this.assetNames.set( sourceFilename, filename )
RECURSIVE analysedNames(_, _, _)
analysedNames(names, modules, r) ==
    IF modules = <<>> THEN names
    ELSE analysedNames(mapSet(names, Head(modules).k, Head(modules).v, r), Tail(modules), r)

\* an asset module of a chunk: the file it is emitted as, and its source as the host's
\* path functions give it, relative to the compiler's context ( relative ) and joined to
\* the directory of the emitted file ( k )
Module(relative, joined, filename) == [k |-> joined, v |-> filename, relative |-> relative]

\* handleProcessAssetsAnalyse: ( sourceFilename, filename ) of each asset module
moduleSourceFilenames(opt, modules) ==
    [i \in 1..Len(modules) |->
        Entry(IF opt.contextRelativeKeys THEN modules[i].relative ELSE modules[i].k,
              modules[i].v)]

\* the name pushed when no key of the index maps to the asset
fallbackName(opt, asset) ==
    IF asset.sourceFilename # <<>>
    THEN (IF opt.contextRelativeKeys THEN asset.sourceFilename
          ELSE basename(asset.sourceFilename))
    ELSE asset.name

\* a handleAfterProcessAssets that pushes the fallback name for every asset
sourceFilenamesWithFallback(opt, names, asset) ==
    findMapKeysByValue(names, asset.name) \o << fallbackName(opt, asset) >>

\* handleAfterProcessAssets: the keys one asset is set under
sourceFilenamesOf(opt, names, asset) ==
    LET found == findMapKeysByValue(names, asset.name)
    IN IF found # <<>> THEN found ELSE << fallbackName(opt, asset) >>

\* the ( asset, key ) pairs in the order in which the two loops visit them
RECURSIVE assetKeyPairs(_, _, _)
assetKeyPairs(opt, names, as) ==
    IF as = <<>> THEN <<>>
    ELSE LET keys == sourceFilenamesOf(opt, names, Head(as))
         IN [i \in 1..Len(keys) |-> [asset |-> Head(as), key |-> keys[i]]]
               \o assetKeyPairs(opt, names, Tail(as))

----------------------------------------------------------------------------
(* The compilations and compiler options explored *)

\* the compilations explored: a chunk m with its file m.j, a hot-update file m.h.j of
\* that chunk, an asset module d\i.p emitted as x.p (the host joins paths with a
\* backslash on Windows), a copied file whose info names its source d/c.t, and an asset
\* that comes with a digest
fMain == << "m", ".", "j" >>
fHot == << "m", ".", "h", ".", "j" >>
fImage == << "x", ".", "p" >>
fCopy == << "c", ".", "t" >>
kImage == << "d", "\\", "i", ".", "p" >>
kCopy == << "d", "/", "c", ".", "t" >>
Sha == Str(<< "s", "h", "a" >>)
\* the asset module's source relative to the context, and a second asset whose source
\* has the basename m.j, the key of the file of chunk m
kRelative == << "s", "/", "i", ".", "p" >>
fOther == << "y", ".", "j" >>
kOther == << "d", "/", "m", ".", "j" >>

Compilations ==
    { Compilation(<< CompAsset(fMain, << "x" >>, <<>>, Undefined) >>,
                  << Entry(<< "m" >>, << fMain >>) >>, <<>>),
      Compilation(<< CompAsset(fMain, << "x" >>, <<>>, Undefined),
                     CompAsset(fHot, << "y" >>, <<>>, Undefined) >>,
                  << Entry(<< "m" >>, << fMain, fHot >>) >>, <<>>),
      Compilation(<< CompAsset(fImage, << "z" >>, <<>>, Sha),
                     CompAsset(fMain, << "x", "y" >>, <<>>, Str(<<>>)),
                     CompAsset(fCopy, << "y" >>, kCopy, Undefined) >>,
                  << Entry(<< "m" >>, << fMain >>) >>,
                  << Module(kRelative, kImage, fImage) >>),
      Compilation(<< CompAsset(fMain, << "x" >>, <<>>, Undefined),
                     CompAsset(fOther, << "y" >>, kOther, Undefined) >>,
                  << Entry(<< "m" >>, << fMain >>) >>, <<>>) }

\* compiler.options.output: webpack's own templates, the hot-update template set to
\* the filename template, and no hot-update template
tName == << "[", "n", "]", ".", "j" >>
tHot == << "[", "i", "]", ".", "h", ".", "j" >>
\* a child compilation: one asset of its own, in no chunk
fChild == << "k", ".", "j" >>
ChildCompilations == { Compilation(<< CompAsset(fChild, << "z" >>, <<>>, Undefined) >>, <<>>, <<>>) }

\* an asset a plugin adds late: the compressed form of a file
fLate == << "m", ".", "g" >>
LateAsset == CompAsset(fLate, << "c" >>, <<>>, Undefined)

CompilerOutputs ==
    { [filename |-> Str(tName), hotUpdateChunkFilename |-> Str(tHot)],
      [filename |-> Str(tName), hotUpdateChunkFilename |-> Str(tName)],
      [filename |-> Str(tName), hotUpdateChunkFilename |-> Undefined] }

----------------------------------------------------------------------------
(* apply, and the handlers the host calls in the course of a run *)

MaxRuns == 2
MaxChildren == 1

CompilerHooks == {"beforeRun", "watchRun", "compilation", "afterEmit", "done"}

\* validate( optionsSchema, this.options ): the schema takes a number of spaces that
\* is not negative
validate(opt) == opt.space >= 0


\* Object.assign( target, source ) into a target that is not the source
RECURSIVE objectAssign(_, _)
objectAssign(target, source) ==
    IF source = <<>> THEN target
    ELSE objectAssign(PutProp(target, Head(source).k, Head(source).v), Tail(source))

\* what hooks.options.call( this.options ) returns: the options it was given, or
\* options whose assets are another object
OptionsStage(replaces, as) == [replaces |-> replaces, assets |-> as]
NoOptionsStage == OptionsStage(FALSE, <<>>)
OptionsStages ==
    { NoOptionsStage,
      OptionsStage(TRUE, << Entry(kA, Z) >>),
      OptionsStage(TRUE, << Entry(kAJ, Y), Entry(kFwd, Z) >>),
      OptionsStage(TRUE, <<>>) }

\* this.assets = Object.assign( this.options.assets, this.assets, this.options.assets ):
\* the target and the last source are one object; when no stage has replaced the
\* options' assets, this.assets is that object too
assignedAssets(stage, thisAssets) ==
    IF stage.replaces
    THEN LET target == objectAssign(stage.assets, thisAssets)
         IN objectAssign(target, target)
    ELSE thisAssets

\* apply( compiler ), output being compiler.options.output
Apply(p) ==
    /\ pc[p] = "idle"
    /\ run[p] = 0
    /\ last[p].op # "apply"
    /\ "afterOptions" \notin fired[p]
    /\ \E output \in CompilerOutputs,
          stage \in (IF cycle[p].options = "none" THEN {NoOptionsStage} ELSE OptionsStages) :
       /\ IF ~options[p].enabled
          THEN UNCHANGED << options, compiler, hmrRegex, tapped, fired, pc, err, assets >>
          ELSE LET opts == [options[p] EXCEPT
                               !.integrityHashes = filterHashes(options[p].integrityHashes)]
               IN /\ compiler' = [compiler EXCEPT ![p] = "compiler"]
                  /\ options' = [options EXCEPT ![p] = opts]
                  /\ IF validate(opts)
                     THEN /\ assets' = [assets EXCEPT ![p] = assignedAssets(stage, @)]
                          /\ hmrRegex' = [hmrRegex EXCEPT ![p] =
                                IF /\ output.filename # output.hotUpdateChunkFilename
                                   /\ output.hotUpdateChunkFilename.t = "str"
                                THEN RegExp(templateStringToRegExp(output.hotUpdateChunkFilename.s))
                                ELSE @]
                          /\ tapped' = [tapped EXCEPT ![p] = CompilerHooks]
                          /\ fired' = [fired EXCEPT ![p] = {"options", "afterOptions", "apply"}]
                          /\ UNCHANGED << pc, err >>
                     ELSE /\ fired' = [fired EXCEPT ![p] = {"options", "afterOptions"}]
                          /\ pc' = [pc EXCEPT ![p] = "failed"]
                          /\ err' = [err EXCEPT ![p] = "validation"]
                          /\ UNCHANGED << hmrRegex, tapped, assets >>
       /\ last' = [last EXCEPT ![p] = [NoLast EXCEPT !.op = "apply", !.before = assets[p],
                                                     !.info = << options[p], compiler[p],
                                                                 stage >>]]
    /\ UNCHANGED << calls, merges, did, currentAsset, isMerging, warned, ret,
                    mergeData, emitted, disk, locks, assetNames, compilationCounter,
                    compilation, pending, run >>
    /\ UNCHANGED << inserted, stack, cycle >>

\* a handleBeforeRun that leaves the index as it is
indexKept(names) == names

\* this.assetNames.clear()
indexCleared(names) == <<>>

\* handleBeforeRun, tapped on beforeRun and on watchRun: a run of the compiler starts
\* when the one before it has ended
HandleBeforeRun(p) ==
    /\ pc[p] \in {"idle", "emitted", "skipped", "failed", "aborted"}
    /\ {"beforeRun", "watchRun"} \subseteq tapped[p]
    /\ run[p] < MaxRuns
    /\ assetNames' = [assetNames EXCEPT ![p] = indexCleared(@)]
    /\ run' = [run EXCEPT ![p] = @ + 1]
    /\ pc' = [pc EXCEPT ![p] = "run"]
    /\ err' = [err EXCEPT ![p] = "none"]
    /\ last' = [last EXCEPT ![p] = [NoLast EXCEPT !.op = "beforeRun", !.before = assets[p]]]
    /\ cycle' = [cycle EXCEPT ![p].children = 0]
    /\ UNCHANGED << calls, merges, did, options, assets, currentAsset, isMerging, warned,
                    ret, mergeData, emitted, disk, locks, compiler, hmrRegex,
                    compilationCounter, tapped, fired, compilation, pending >>
    /\ UNCHANGED << inserted, stack >>

\* handleCompilation: ++this[ COMPILATION_COUNTER ], and the taps on the compilation
HandleCompilation(p) ==
    /\ pc[p] = "run"
    /\ \E c \in Compilations : compilation' = [compilation EXCEPT ![p] = c]
    /\ compilationCounter' = [compilationCounter EXCEPT ![p] = @ + 1]
    /\ pc' = [pc EXCEPT ![p] = "processAssets"]
    /\ cycle' = [cycle EXCEPT ![p].started = @ + 1]
    /\ UNCHANGED << calls, merges, did, options, assets, currentAsset, isMerging, warned,
                    ret, mergeData, emitted, err, disk, locks, last, assetNames, compiler,
                    hmrRegex, tapped, fired, pending, run >>
    /\ UNCHANGED << inserted, stack >>

\* handleCompilation for a child compilation, which the host starts and ends while the
\* compilation that made it is being built
ChildCompilation(p) ==
    /\ pc[p] = "processAssets"
    /\ cycle[p].children < MaxChildren
    /\ stack' = [stack EXCEPT ![p] = << compilation[p] >> \o @]
    /\ \E c \in ChildCompilations : compilation' = [compilation EXCEPT ![p] = c]
    /\ compilationCounter' = [compilationCounter EXCEPT ![p] = @ + 1]
    /\ cycle' = [cycle EXCEPT ![p].started = @ + 1, ![p].children = @ + 1]
    /\ UNCHANGED << calls, merges, did, options, assets, currentAsset, isMerging, warned,
                    pc, ret, mergeData, emitted, err, disk, locks, last, assetNames, compiler,
                    hmrRegex, tapped, fired, pending, run, inserted >>

\* the host gives up a run before the processAssets hooks have all been called (an
\* error of the make or finish phase, a plugin's error): no further handler of the run
\* is called
HostAborts(p) ==
    /\ pc[p] \in {"processAssets", "optimizeHash", "optimizeTransfer", "analysed"}
    /\ pc' = [pc EXCEPT ![p] = "aborted"]
    /\ stack' = [stack EXCEPT ![p] = <<>>]
    /\ cycle' = [cycle EXCEPT ![p].aborted = TRUE]
    /\ UNCHANGED << calls, merges, did, options, assets, currentAsset, isMerging, warned,
                    ret, mergeData, emitted, err, disk, locks, last, assetNames, compiler,
                    hmrRegex, compilationCounter, tapped, fired, compilation, pending, run,
                    inserted >>

\* recordSubresourceIntegrity, tapped when options.integrity is set; it can be run on
\* a compilation more than once
RecordSubresourceIntegrity(p) ==
    /\ pc[p] \in {"processAssets", "optimizeHash"}
    /\ options[p].integrity
    /\ compilation' = [compilation EXCEPT ![p].assets =
                          recordSubresourceIntegrity(options[p].integrityHashes, @)]
    /\ pc' = [pc EXCEPT ![p] = "optimizeHash"]
    /\ last' = [last EXCEPT ![p] = [NoLast EXCEPT !.op = "sri", !.prevOp = last[p].op,
                                                  !.info = compilation[p].assets]]
    /\ UNCHANGED << calls, merges, did, options, assets, currentAsset, isMerging, warned,
                    ret, mergeData, emitted, err, disk, locks, assetNames, compiler,
                    hmrRegex, compilationCounter, tapped, fired, pending, run >>
    /\ UNCHANGED << inserted, stack, cycle >>

\* between the stage recordSubresourceIntegrity is tapped at ( OPTIMIZE_HASH ) and the
\* one handleProcessAssetsAnalyse is tapped at ( ANALYSE ), a plugin of the host's adds an
\* asset to the compilation, as a compression plugin does at OPTIMIZE_TRANSFER
HostAddsAsset(p) ==
    /\ pc[p] = "optimizeHash"
    /\ compilation' = [compilation EXCEPT ![p].assets = Append(@, LateAsset)]
    /\ pc' = [pc EXCEPT ![p] = "optimizeTransfer"]
    /\ UNCHANGED << calls, merges, did, options, assets, currentAsset, isMerging, warned,
                    ret, mergeData, emitted, err, disk, locks, last, assetNames, compiler,
                    hmrRegex, compilationCounter, tapped, fired, pending, run, inserted,
                    stack, cycle >>

\* handleProcessAssetsAnalyse
HandleProcessAssetsAnalyse(p) ==
    /\ \/ pc[p] \in {"optimizeHash", "optimizeTransfer"}
       \/ pc[p] = "processAssets" /\ ~options[p].integrity
    /\ assetNames' = [assetNames EXCEPT ![p] =
                         analysedNames(@, moduleSourceFilenames(options[p],
                                                                compilation[p].modules),
                                       run[p])]
    /\ compilation' = [compilation EXCEPT ![p].assets =
                          analysedAssets(@, moduleSourceFilenames(options[p],
                                                                  compilation[p].modules))]
    /\ pc' = [pc EXCEPT ![p] = "analysed"]
    /\ UNCHANGED << calls, merges, did, options, assets, currentAsset, isMerging, warned,
                    ret, mergeData, emitted, err, disk, locks, last, compiler, hmrRegex,
                    compilationCounter, tapped, fired, pending, run >>
    /\ UNCHANGED << inserted, stack, cycle >>

\* handleAfterProcessAssets up to its loops: processAssetsByChunkName, and the keys
\* found for each asset of compilation.getAssets()
AfterProcessAssetsBegin(p) ==
    /\ pc[p] = "analysed"
    /\ LET names == processAssetsByChunkName(assetNames[p], hmrRegex[p],
                                             compilation[p].assetsByChunkName, run[p])
       IN /\ assetNames' = [assetNames EXCEPT ![p] = names]
          /\ pending' = [pending EXCEPT ![p] = assetKeyPairs(options[p], names,
                                                                     compilation[p].assets)]
    /\ pc' = [pc EXCEPT ![p] = "afterProcess"]
    /\ cycle' = [cycle EXCEPT ![p].sets = <<>>]
    /\ UNCHANGED << calls, merges, did, options, assets, currentAsset, isMerging, warned,
                    ret, mergeData, emitted, err, disk, locks, last, compiler, hmrRegex,
                    compilationCounter, tapped, fired, compilation, run >>
    /\ UNCHANGED << inserted, stack >>

\* what the customize chain may answer in the course of a run
BuildHooks ==
    { HookPass,
      Hook("false", FALSE, <<>>, FALSE, Undefined, "Boolean"),
      Hook("throw", FALSE, <<>>, FALSE, Undefined, "Error") }

\* one turn of sourceFilenames.forEach: this.currentAsset = asset;
\* this.set( key, asset.name ); this.currentAsset = null. An error a customize stage
\* raises is caught nowhere: it ends handleAfterProcessAssets there and then
AfterProcessAssetKey(p) ==
    /\ pc[p] = "afterProcess"
    /\ pending[p] # <<>>
    /\ \E hook \in (IF cycle[p].customize = "none" THEN {HookPass} ELSE BuildHooks) :
          LET a == Head(pending[p]).asset
              key == Head(pending[p]).key
              asset == Asset(a.name, a.integrity)
              r == set(options[p], isMerging[p], asset, warned[p], assets[p], key,
                       Str(a.name), hook)
          IN /\ assets' = [assets EXCEPT ![p] = r.assets]
             /\ warned' = [warned EXCEPT ![p] = r.warned]
             /\ currentAsset' = [currentAsset EXCEPT ![p] = IF r.threw THEN asset ELSE NoAsset]
             /\ pending' = [pending EXCEPT ![p] = IF r.threw THEN @ ELSE Tail(@)]
             /\ pc' = [pc EXCEPT ![p] = IF r.threw THEN "failed" ELSE @]
             /\ err' = [err EXCEPT ![p] = IF r.threw THEN "customize" ELSE @]
             /\ last' = [last EXCEPT ![p] = SetLast(p, key, Str(a.name), hook, asset, r)]
             /\ cycle' = [cycle EXCEPT ![p].threw = @ \/ r.threw,
                                       ![p].sets = Append(@, [key |-> key, name |-> a.name,
                                                              hook |-> hook.kind])]
    /\ UNCHANGED << calls, merges, did, options, isMerging, ret, mergeData, emitted, disk,
                    locks, assetNames, compiler, hmrRegex, compilationCounter, tapped,
                    fired, compilation, run >>
    /\ UNCHANGED << inserted, stack >>

\* the end of handleAfterProcessAssets (options.entrypoints is off):
\* if ( --this[ COMPILATION_COUNTER ] === 0 ) this.emitAssetsManifest( compilation )
AfterProcessAssetsEnd(p) ==
    /\ pc[p] = "afterProcess"
    /\ pending[p] = <<>>
    /\ compilationCounter' = [compilationCounter EXCEPT ![p] = @ - 1]
    /\ cycle' = [cycle EXCEPT ![p].ended = @ + 1]
    /\ IF compilationCounter[p] - 1 = 0
       THEN /\ pc' = [pc EXCEPT ![p] = "emitAssets"]
            /\ UNCHANGED << compilation, stack >>
       ELSE IF stack[p] # <<>>
            THEN \* the host goes on with the compilation that made this one
                 /\ pc' = [pc EXCEPT ![p] = "processAssets"]
                 /\ compilation' = [compilation EXCEPT ![p] = Head(stack[p])]
                 /\ stack' = [stack EXCEPT ![p] = Tail(@)]
            ELSE /\ pc' = [pc EXCEPT ![p] = "skipped"]
                 /\ UNCHANGED << compilation, stack >>
    /\ UNCHANGED << calls, merges, did, options, assets, currentAsset, isMerging, warned,
                    ret, mergeData, emitted, err, disk, locks, last, assetNames, compiler,
                    hmrRegex, tapped, fired, pending, run, inserted >>

InitBuild ==
    \E space \in {2, -1}, enabled \in BOOLEAN, integrity \in BOOLEAN,
       hashes \in {DefaultOptions.integrityHashes, << md5, << "x" >>, md5 >>, << << "x" >> >>},
       contextRelativeKeys \in BOOLEAN :
        InitProc([p \in Procs |-> IF p = 1
                                  THEN [DefaultOptions EXCEPT !.space = space,
                                                              !.enabled = enabled,
                                                              !.integrity = integrity,
                                                              !.integrityHashes = hashes,
                                                              !.contextRelativeKeys =
                                                                  contextRelativeKeys]
                                  ELSE DefaultOptions],
                 [p \in Procs |-> <<>>],
                 FileMissing)

NextBuild ==
    \/ Apply(1)
    \/ HandleBeforeRun(1)
    \/ HandleCompilation(1)
    \/ RecordSubresourceIntegrity(1)
    \/ HandleProcessAssetsAnalyse(1)
    \/ AfterProcessAssetsBegin(1)
    \/ AfterProcessAssetKey(1)
    \/ AfterProcessAssetsEnd(1)
    \/ EmitBegin(1)
    \/ MergeBegin(1)
    \/ EmitAsset(1)

SpecBuild == InitBuild /\ [][NextBuild]_vars

\* runs with child compilations, and runs the host gives up
InitCycle ==
    \E integrity \in BOOLEAN :
        /\ InitProcBut([p \in Procs |-> [DefaultOptions EXCEPT !.integrity = integrity]],
                       [p \in Procs |-> <<>>],
                       FileMissing)
        /\ cycle = [p \in Procs |-> [NoCycle EXCEPT !.customize = "none"]]

NextCycle ==
    \/ NextBuild
    \/ ChildCompilation(1)
    \/ HostAborts(1)
    \/ HostAddsAsset(1)

SpecCycle == InitCycle /\ [][NextCycle]_vars

\* manifest.set( key, value ), called by the user before apply
SetBeforeApply(p) ==
    /\ pc[p] = "idle"
    /\ "afterOptions" \notin fired[p]
    /\ calls[p] < MaxSets
    /\ \E key \in {kA, kFwd}, value \in {X, Y} :
          LET r == set(options[p], isMerging[p], currentAsset[p], warned[p],
                       assets[p], key, value, HookPass)
          IN /\ assets' = [assets EXCEPT ![p] = r.assets]
             /\ warned' = [warned EXCEPT ![p] = r.warned]
             /\ err' = [err EXCEPT ![p] = IF r.threw THEN "customize" ELSE "none"]
             /\ last' = [last EXCEPT ![p] = SetLast(p, key, value, HookPass, currentAsset[p], r)]
    /\ calls' = [calls EXCEPT ![p] = @ + 1]
    /\ UNCHANGED << merges, did, options, currentAsset, isMerging, pc, ret, mergeData,
                    emitted, disk, locks >>
    /\ UNCHANGED buildVars

\* a manifest made with or without options.assets, entries set before apply, and apply
\* with stages tapped on hooks.options
InitApply ==
    \E space \in {2, -1}, enabled \in BOOLEAN,
       seed \in {<<>>, << Entry(kAJ, X) >>, << Entry(kFwd, X), Entry(kA, Y) >>} :
        /\ InitProcBut([p \in Procs |-> IF p = 1
                                         THEN [DefaultOptions EXCEPT !.space = space,
                                                                     !.enabled = enabled]
                                         ELSE DefaultOptions],
                       [p \in Procs |-> IF p = 1 THEN seed ELSE <<>>],
                       FileMissing)
        /\ cycle = [p \in Procs |-> [NoCycle EXCEPT !.options = "some"]]

NextApply == SetBeforeApply(1) \/ Apply(1)

SpecApply == InitApply /\ [][NextApply]_vars

----------------------------------------------------------------------------
(* What the claims about set expect, stated without the operators of the model *)

\* the key with every backslash replaced by a forward slash
ExpectedKey(key) == [i \in 1..Len(key) |-> IF key[i] = "\\" THEN "/" ELSE key[i]]

\* the public path the options resolve a value to
ExpectedPublicPath(opt, value) ==
    IF value.t = "str" /\ opt.publicPath = "prefix"
    THEN IF value.s # <<>> /\ value.s[1] = "/" THEN value ELSE Str(<< "/" >> \o value.s)
    ELSE value

\* every key but k has the same presence and the same value in a and in b
SameExcept(a, b, k) ==
    \A k2 \in (KeysOf(a) \cup KeysOf(b)) \ {k} :
        /\ HasOwn(a, k2) /\ HasOwn(b, k2)
        /\ Prop(a, k2) = Prop(b, k2)

\* a completed (not raised) call of set outside a merge
SetDone(p) == last[p].op = "set" /\ ~last[p].threw

\* the key a completed set call writes under
WrittenKey(p) ==
    IF last[p].hook.kind = "object" /\ last[p].hook.hasKey
    THEN last[p].hook.key
    ELSE ExpectedKey(last[p].key)

\* C8: a call of set outside a merge writes exactly one entry and leaves every other key
\* as it was; when the customize chain returns false the store is left as it was.
C8_SetWritesOneEntry ==
    \A p \in Procs :
        SetDone(p) =>
            IF last[p].hook.kind = "false"
            THEN assets[p] = last[p].before
            ELSE /\ HasOwn(assets[p], WrittenKey(p))
                 /\ SameExcept(assets[p], last[p].before, WrittenKey(p))
                 /\ Len(assets[p]) <= Len(last[p].before) + 1
                 /\ Cardinality(KeysOf(assets[p])) = Len(assets[p])

C8_Witness ==
    /\ SetDone(1)
    /\ last[1].hook.kind = "object"
    /\ last[1].before # <<>>
    /\ Len(assets[1]) = Len(last[1].before) + 1
    /\ \E q \in Procs : calls[q] = 2 /\ assets[q] # <<>>

Emitted(w, msg) == Cardinality({i \in 1..Len(w) : w[i] = msg})

\* C10: when the customize chain's result is neither an object nor false, set does not
\* fail: the warning for that result type has been emitted once, the normalized key maps
\* to the resolved public path, and every other key is as it was.
C10_NonObjectFallback ==
    \A p \in Procs :
        (last[p].op = "set" /\ last[p].hook.kind = "nonobject") =>
            /\ ~last[p].threw
            /\ err[p] = "none"
            /\ Emitted(warned[p], last[p].hook.vtype) = 1
            /\ HasOwn(assets[p], ExpectedKey(last[p].key))
            /\ Prop(assets[p], ExpectedKey(last[p].key))
                  = ExpectedPublicPath(options[p], last[p].value)
            /\ SameExcept(assets[p], last[p].before, ExpectedKey(last[p].key))

C10_Witness ==
    /\ last[1].op = "set"
    /\ last[1].hook.kind = "nonobject"
    /\ last[1].key = kBack
    /\ options[1].integrity
    /\ Emitted(last[1].wbefore, last[1].hook.vtype) = 1
    /\ ~HasOwn(last[1].before, kFwd)
    /\ Prop(assets[1], kFwd) = Str(<< "x" >>)

----------------------------------------------------------------------------
(* Claims about maybeMerge *)

InMaybeMerge(p) == pc[p] \in {"mergeRead", "mergeLoop", "mergeFinally"}

\* a run of maybeMerge, with merge enabled, that has ended
MergeDone(p) == last[p].op = "merge" /\ options[p].merge # "off"

\* C4: with merge enabled and the manifest file missing, unreadable or not JSON,
\* maybeMerge raises no error and leaves every entry of the store as it was, and the
\* manifest that is then emitted holds the in-memory entries only.
C4_BadFileLeavesStore ==
    \A p \in Procs :
        (MergeDone(p) /\ last[p].file.st # "json") =>
            /\ assets[p] = last[p].before
            /\ err[p] \notin {"read", "customize"}
            /\ pc[p] = "emitted" =>
                  /\ emitted[p].st = "json"
                  /\ KeysOf(emitted[p].doc.e) = KeysOf(last[p].before)
                  /\ \A k \in KeysOf(last[p].before) :
                        Prop(emitted[p].doc.e, k) = Prop(last[p].before, k)

C4_Witness ==
    /\ MergeDone(1)
    /\ last[1].file.st = "invalid"
    /\ pc[1] = "emitted"
    /\ Len(assets[1]) = 2
    /\ emitted[1].doc.e # <<>>

\* C5: the merging flag is false in every state outside an executing maybeMerge,
\* whatever way maybeMerge was left, and is never set when merge is disabled.
C5_MergingFlagCleared ==
    \A p \in Procs :
        /\ ~InMaybeMerge(p) => ~isMerging[p]
        /\ options[p].merge = "off" => ~isMerging[p]

C5_Witness ==
    /\ MergeDone(1)
    /\ last[1].file.st = "json"
    /\ last[1].threw
    /\ last[1].before # assets[1]
    /\ pc[1] = "idle"
    /\ ~isMerging[1]

\* the store has the key, as it is or normalized, and the value it has for it
StoreHas(S, k) == HasOwn(S, k) \/ HasOwn(S, ExpectedKey(k))
StoreValue(S, k) == IF HasOwn(S, k) THEN Prop(S, k) ELSE Prop(S, ExpectedKey(k))

\* C6: after maybeMerge (merge true) of on-disk data D into the store S, for every key
\* k of D: when S has k and both values are plain objects the store holds their deep
\* merge under k; when S has k and they are not both plain objects S's value is kept;
\* when S does not have k, D[k] is stored under k. Keys of S not in D are unchanged.
C6_MergeResult ==
    \A p \in Procs :
        (MergeDone(p) /\ options[p].merge = "on" /\ last[p].file.st = "json") =>
            LET D == last[p].file.doc.e
                S == last[p].before
                R == assets[p]
            IN /\ \A k \in KeysOf(D) :
                     IF StoreHas(S, k)
                     THEN IF isObject(Prop(D, k)) /\ isObject(StoreValue(S, k))
                          THEN Prop(R, k) = deepmerge(Prop(D, k), StoreValue(S, k))
                          ELSE /\ Prop(R, k) = Prop(S, k)
                               /\ HasOwn(R, k) <=> HasOwn(S, k)
                     ELSE HasOwn(R, k) /\ Prop(R, k) = Prop(D, k)
               /\ \A k \in KeysOf(S) \ KeysOf(D) : HasOwn(R, k) /\ Prop(R, k) = Prop(S, k)

\* C7: running maybeMerge twice in a row against the same file leaves the store as the
\* first run left it, under merge true and 'customize', integrity on or off (no
\* customize stage is registered in either run).
C7_MergeIdempotent ==
    \A p \in Procs :
        ( /\ MergeDone(p)
          /\ last[p].prevOp = "merge"
          /\ last[p].prevFile = last[p].file
          /\ last[p].clean /\ last[p].prevClean ) =>
            assets[p] = last[p].before

----------------------------------------------------------------------------
(* Claims about the lock around the merge and the write *)

InEmitSection(p) == pc[p] \in {"maybeMerge", "mergeRead", "mergeLoop", "mergeFinally", "emit"}
InWriteSection(p) == pc[p] \in {"mkdir", "writeFile", "unlock"}

\* C1: with merge enabled, two processes that target the same manifest file each read,
\* merge and write it inside one critical section, so once both have written the
\* manifest and finished, the file holds the entries of both.
C1_NoLostUpdate ==
    (\A p \in Procs : /\ pc[p] = "done"
                      /\ options[p].merge = "on"
                      /\ options[p].writeToDisk
                      /\ "writeFile" \in did[p])
        => /\ disk.st = "json"
           /\ HasOwn(disk.doc.e, kA)
           /\ HasOwn(disk.doc.e, kFwd)

\* C2: a lock that emitAssetsManifest or writeTo acquired is released by the time the
\* operation has ended, whether it completed or one of its steps failed.
C2_LockReleased ==
    \A p \in Procs :
        /\ ~InEmitSection(p) => locks["emit"] # p
        /\ ~InWriteSection(p) => locks["write"] # p

\* C3: when the lock is not acquired the step fails with that error and goes no
\* further: writeTo rejects with neither the directory created nor the file written,
\* emitAssetsManifest runs no merge and emits no asset; and writeTo creates the
\* directory and writes the file only while it holds the lock.
C3_NoLockNoWrite ==
    \A p \in Procs :
        /\ (pc[p] = "rejected" /\ err[p] = "lock") => did[p] = {}
        /\ (pc[p] = "failed" /\ err[p] = "lock") =>
              /\ last[p].op = "none"
              /\ ~isMerging[p]
              /\ emitted[p] = FileMissing
        /\ pc[p] \in {"mkdir", "writeFile"} => (locks["write"] = p /\ err[p] = "none")
        /\ did[p] # {} => pc[p] \in {"writeFile", "unlock", "done", "rejected"}

C3_Witness ==
    /\ pc[1] = "rejected" /\ err[1] = "lock"
    /\ locks["write"] = 2 /\ "writeFile" \in did[2]
    /\ pc[2] = "unlock"
    /\ disk.st = "json" /\ ~HasOwn(disk.doc.e, kA)

----------------------------------------------------------------------------
(* Claims about a run: post-processing, the index, hot-update files, apply *)

\* a run that has ended: its manifest was emitted, or not emitted, or a handler failed
RunEnded(p) == run[p] > 0 /\ pc[p] \in {"emitted", "skipped", "failed"}

\* C11: an error a customize stage raises for the entry of one asset does not abort the
\* build: the run does not end there, the remaining assets of the compilation are set in
\* the store and the manifest of that run is emitted.
C11_CustomizeErrorIsolated ==
    \A p \in Procs :
        (RunEnded(p) /\ err[p] = "customize") =>
            /\ pending[p] = <<>>
            /\ pc[p] = "emitted"
            /\ emitted[p].st = "json"

\* C12: at every run start (beforeRun, watchRun) the index becomes empty and the store
\* is left as it was; so every index entry that post-processing sees was recorded in
\* the current run, while the entries the store got in earlier runs are still there.
C12_IndexClearedAtRunStart ==
    \A p \in Procs :
        /\ (pc[p] = "run" /\ last[p].op = "beforeRun") =>
              /\ assetNames[p] = <<>>
              /\ assets[p] = last[p].before
        /\ \A i \in 1..Len(assetNames[p]) : assetNames[p][i].run = run[p]
        /\ \A i \in 1..Len(pending[p]) :
              pc[p] = "afterProcess" =>
                 \A j \in 1..Len(assetNames[p]) :
                    assetNames[p][j].k = pending[p][i].key => assetNames[p][j].run = run[p]

C12_Witness ==
    /\ run[1] = 2
    /\ pc[1] = "afterProcess"
    /\ HasOwn(assets[1], << "d", "/", "i", ".", "p" >>)
    /\ assetNames[1] # <<>>
    /\ \A i \in 1..Len(assetNames[1]) : assetNames[1][i].k # kImage

\* a name that the hot-update template [i].h.j stands for
HotUpdateName(name) ==
    /\ Len(name) > 4
    /\ SubSeq(name, Len(name) - 3, Len(name)) = << ".", "h", ".", "j" >>

\* post-processing of the current run has gone through all the assets
PostProcessed(p) ==
    /\ run[p] > 0
    /\ pc[p] \in {"emitAssets", "skipped", "maybeMerge", "emit", "emitted"}

\* C13: a hot-update file never appears in the manifest: after post-processing no entry
\* of the store has the name of a hot-update asset as its key, its value or its src, and
\* processAssetsByChunkName has recorded no index entry for such a name.
C13_NoHotUpdateInManifest ==
    \A p \in Procs :
        hmrRegex[p].some =>
            /\ \A i \in 1..Len(assetNames[p]) : ~HotUpdateName(assetNames[p][i].v)
            /\ PostProcessed(p) =>
                  \A i \in 1..Len(assets[p]) :
                     LET e == assets[p][i]
                     IN /\ ~HotUpdateName(e.k)
                        /\ e.v.t = "str" => ~HotUpdateName(e.v.s)
                        /\ (e.v.t = "obj" /\ HasOwn(e.v.e, << "s", "r", "c" >>)) =>
                              ~HotUpdateName(Prop(e.v.e, << "s", "r", "c" >>).s)

----------------------------------------------------------------------------
(* Claims about has, get and delete *)

\* the entries without the one under key k
Without(es, k) == SelectSeq(es, LAMBDA e : e.k # k)

\* C14: has(key) is true exactly when the store holds the key as it is or normalized;
\* delete(key) removes the entry under the key as it is, or else the one under the
\* normalized key, removes no other entry, and returns true exactly when it removed
\* one; for a key held in neither form both return false and the store is unchanged.
C14_HasAndDelete ==
    \A p \in Procs :
        LET S == last[p].before
            k == last[p].key
        IN /\ last[p].op = "has" => (last[p].result = Bool(StoreHas(S, k)))
           /\ last[p].op = "delete" =>
                 /\ last[p].result = Bool(StoreHas(S, k))
                 /\ assets[p] = IF HasOwn(S, k) THEN Without(S, k)
                                ELSE Without(S, ExpectedKey(k))

\* C15: get(key, default) returns the stored value whenever the store holds the key as
\* it is or normalized, whatever the value (the empty string included), the key as it is
\* first, and the default only when the store holds the key in neither form.
C15_GetReturnsStored ==
    \A p \in Procs :
        last[p].op = "get" =>
            last[p].result = IF StoreHas(last[p].before, last[p].key)
                             THEN StoreValue(last[p].before, last[p].key)
                             ELSE last[p].value

----------------------------------------------------------------------------
(* Claims about toString *)

\* two values are structurally equal: the same text, or objects with the same keys
\* whose values are structurally equal, whatever the order of the keys
RECURSIVE StructurallyEqual(_, _)
StructurallyEqual(v, w) ==
    IF v.t = "obj" /\ w.t = "obj"
    THEN /\ KeysOf(v.e) = KeysOf(w.e)
         /\ \A k \in KeysOf(v.e) : StructurallyEqual(Prop(v.e, k), Prop(w.e, k))
    ELSE v = w

KeySeq(es) == [i \in 1..Len(es) |-> es[i].k]

\* a comes before b in the alphabet: character by character, by code unit
RECURSIVE Alphabetical(_, _)
Alphabetical(a, b) ==
    IF a = <<>> THEN b # <<>>
    ELSE IF b = <<>> THEN FALSE
    ELSE IF Head(a) = Head(b) THEN Alphabetical(Tail(a), Tail(b))
    ELSE codeUnit(Head(a)) < codeUnit(Head(b))

\* JSON.parse of a text that holds JSON
JSONparse(text) == text.doc

\* C16: toString round-trips and leaves the store alone: the text parses to a mapping
\* structurally equal to the store; its keys are in alphabetical order when sortManifest
\* is true and in the order in which they were inserted in the store when it is false;
\* and the entries of the store and their order are as they were.
C16_SerializeRoundTrip ==
    \A p \in Procs :
        last[p].op = "toString" =>
            LET text == last[p].info
                keys == KeySeq(text.doc.e)
            IN /\ text.st = "json"
               /\ StructurallyEqual(JSONparse(text), Obj(last[p].before))
               /\ options[p].sortManifest =>
                     \A i \in 1..Len(keys), j \in 1..Len(keys) :
                        i < j => Alphabetical(keys[i], keys[j])
               /\ ~options[p].sortManifest => keys = inserted[p]
               /\ assets[p] = last[p].before

----------------------------------------------------------------------------
(* Claims about apply and recordSubresourceIntegrity *)

\* C17: when the validation of the options fails in apply, setup is aborted with no
\* partial state: no handler is tapped on the compiler, the apply hook is not called, and
\* the options, the assets and the compiler field are as they were before apply.
C17_ApplyAbortsCleanly ==
    \A p \in Procs :
        (last[p].op = "apply" /\ err[p] = "validation") =>
            /\ tapped[p] = {}
            /\ "apply" \notin fired[p]
            /\ assets[p] = last[p].before
            /\ options[p] = last[p].info[1]
            /\ compiler[p] = last[p].info[2]

\* the info of an asset carries a digest
HasDigest(asset) == asset.integrity.t = "str" /\ asset.integrity.s # <<>>

\* C18: recordSubresourceIntegrity computes and stores a digest for the assets whose
\* info carries none, leaves a digest that is there as it is, and run a second time on
\* the same compilation leaves the info of every asset as the first run left it.
C18_IntegrityRecordedOnce ==
    \A p \in Procs :
        (last[p].op = "sri" /\ pc[p] = "optimizeHash") =>
            LET before == last[p].info
                after == compilation[p].assets
            IN /\ Len(after) = Len(before)
               /\ \A i \in 1..Len(before) :
                     IF HasDigest(before[i])
                     THEN after[i] = before[i]
                     ELSE /\ after[i].integrity =
                                Str(getSRIHash(options[p].integrityHashes, before[i].source))
                          /\ after[i] = [before[i] EXCEPT !.integrity = after[i].integrity]
               /\ last[p].prevOp = "sri" => after = before

C18_Witness ==
    /\ last[1].op = "sri"
    /\ pc[1] = "optimizeHash"
    /\ last[1].prevOp = "sri"
    /\ Len(compilation[1].assets) = 3
    /\ compilation[1].assets[1].integrity = Sha
    /\ HasDigest(compilation[1].assets[2])
    /\ compilation[1].assets[2].integrity # compilation[1].assets[3].integrity

----------------------------------------------------------------------------
(* Claims about fixKey and about set in the course of a merge *)

NoBackslash(k) == \A i \in 1..Len(k) : k[i] # "\\"

\* C19: fixKey replaces every backslash of a string key by a forward slash and returns
\* a key that is not a string as it is; applied to its own result it returns it
\* unchanged; so a key that set writes outside a merge, when no customize stage gives a
\* key of its own, has no backslash.
C19_FixKeyNormalizes ==
    \A p \in Procs :
        /\ last[p].op = "fixKey" =>
              LET k == last[p].value
                  r == last[p].result
              IN /\ k.t = "str" =>
                       /\ r.t = "str"
                       /\ Len(r.s) = Len(k.s)
                       /\ \A i \in 1..Len(k.s) :
                             r.s[i] = IF k.s[i] = "\\" THEN "/" ELSE k.s[i]
                 /\ k.t # "str" => r = k
                 /\ last[p].prevOp = "fixKey" => r = k
        /\ (SetDone(p) /\ ~isMerging[p] /\ ~last[p].hook.hasKey) =>
              \A k \in KeysOf(assets[p]) :
                 (~HasOwn(last[p].before, k) \/ Prop(assets[p], k) # Prop(last[p].before, k))
                    => NoBackslash(k)

C19_Witness ==
    /\ last[1].op = "fixKey"
    /\ last[1].prevOp = "fixKey"
    /\ last[1].result = Str(<< "/", "a", "/" >>)
    /\ HasOwn(assets[1], kFwd)
    /\ ~HasOwn(assets[1], kBack)

\* the entry the whole of set's pipeline leaves for a call: the key normalized unless a
\* stage gave one, the value resolved against the public path unless a stage gave one,
\* wrapped with the digest when integrity is on and the value is the resolved one
FullPipeline(opt, asset, before, wbefore, key, value, hook, after, wafter, threw) ==
    LET pp == ExpectedPublicPath(opt, value)
        k == IF hook.kind = "object" /\ hook.hasKey THEN hook.key ELSE ExpectedKey(key)
        unchanged == \/ hook.kind # "object"
                     \/ ~hook.hasValue
                     \/ (hook.value.t = "str" /\ pp.t = "str" /\ hook.value.s = pp.s)
        v == IF hook.kind = "object" /\ hook.hasValue THEN hook.value ELSE pp
        digest == IF asset.some /\ asset.integrity.t # "undef"
                  THEN asset.integrity ELSE Str(<<>>)
        wrapped == Obj(<< Entry(<< "s", "r", "c" >>, pp),
                          Entry(<< "i", "n", "t", "e", "g", "r", "i", "t", "y" >>, digest) >>)
    IN CASE hook.kind = "throw" -> threw /\ after = before /\ wafter = wbefore
         [] hook.kind = "false" -> ~threw /\ after = before /\ wafter = wbefore
         [] hook.kind = "object" ->
               /\ ~threw
               /\ HasOwn(after, k)
               /\ Prop(after, k) = (IF opt.integrity /\ unchanged THEN wrapped ELSE v)
               /\ SameExcept(after, before, k)
               /\ wafter = wbefore
         [] OTHER ->
               /\ ~threw
               /\ HasOwn(after, k)
               /\ Prop(after, k) = pp
               /\ SameExcept(after, before, k)
               /\ Emitted(wafter, hook.vtype) = 1

\* the entry setRaw leaves: the value as it is under the key as it is
RawEntry(before, wbefore, key, value, after, wafter, threw) ==
    /\ ~threw
    /\ HasOwn(after, key)
    /\ Prop(after, key) = value
    /\ SameExcept(after, before, key)
    /\ wafter = wbefore

\* C20: while a merge is in progress and the merge option is not 'customize', set stores
\* the value as it is under the key as it is, whatever the customize stages would answer;
\* with the merge option 'customize' set goes through its whole pipeline during the merge
\* too; outside a merge it always does.
C20_SetDuringMerge ==
    \A p \in Procs :
        LET c == last[p].inner
        IN /\ (c.called /\ c.merging /\ options[p].merge # "customize") =>
                 RawEntry(c.before, c.wbefore, c.key, c.value,
                          assets[p], warned[p], last[p].threw)
           /\ (c.called /\ c.merging /\ options[p].merge = "customize") =>
                 FullPipeline(options[p], currentAsset[p], c.before, c.wbefore, c.key,
                              c.value, c.hook, assets[p], warned[p], last[p].threw)
           /\ (last[p].op = "set" /\ ~isMerging[p]) =>
                 FullPipeline(options[p], last[p].asset, last[p].before, last[p].wbefore,
                              last[p].key, last[p].value, last[p].hook,
                              assets[p], warned[p], last[p].threw)

\* a merge with merge: true, after a set of the user's, stored a key with a backslash as
\* it is although a stage would have renamed it
C20_Witness ==
    /\ options[1].merge = "on"
    /\ options[1].integrity
    /\ options[1].publicPath = "prefix"
    /\ calls[1] > 0
    /\ last[1].inner.called
    /\ last[1].inner.merging
    /\ last[1].inner.key = kBack
    /\ last[1].inner.hook.hasKey
    /\ HasOwn(assets[1], kBack)
    /\ ~HasOwn(assets[1], kFwd)

----------------------------------------------------------------------------
(* Claims about the compilation counter, post-processing, apply and the current asset *)

\* the handlers of a run can still be called
InFlight(p) ==
    pc[p] \in {"processAssets", "optimizeHash", "optimizeTransfer", "analysed", "afterProcess"}

\* C21: the counter goes up by one for each compilation that starts and down by one for
\* each post-processing, and is never negative; the manifest is emitted by the
\* post-processing that brings the counter to zero and by no other; a run whose
\* compilations have all been post-processed emits the manifest, also when a run before
\* it was given up before its post-processing.
C21_CounterAndEmission ==
    \A p \in Procs :
        /\ compilationCounter[p] >= 0
        /\ compilationCounter[p] = cycle[p].started - cycle[p].ended
        /\ InFlight(p) => compilationCounter[p] >= Len(stack[p]) + 1
        /\ pc[p] \in {"emitAssets", "emitted"} =>
              compilationCounter[p] = 0 /\ stack[p] = <<>>
        \* "skipped": the last compilation of a run was post-processed, nothing emitted
        /\ pc[p] # "skipped"

\* the place of the asset called name in the host's enumeration
PlaceOf(as, name) == CHOOSE i \in 1..Len(as) : as[i].name = name

\* the keys of the index that map to name
IndexKeysFor(names, name) == {names[i].k : i \in {j \in 1..Len(names) : names[j].v = name}}

\* the set calls of the log made for the asset called name, under key
CallsFor(log, name, key) ==
    {i \in 1..Len(log) : log[i].name = name /\ log[i].key = key}

\* the part of a path after its last forward slash
AfterLastSlash(path) ==
    LET slashes == {i \in 1..Len(path) : path[i] = "/"}
        from == IF slashes = {} THEN 1
                ELSE (CHOOSE i \in slashes : \A j \in slashes : j <= i) + 1
    IN [i \in 1..(Len(path) - from + 1) |-> path[from + i - 1]]

\* the key of an asset that no index key maps to
ExpectedFallback(opt, asset) ==
    IF asset.sourceFilename = <<>> THEN asset.name
    ELSE IF opt.contextRelativeKeys THEN asset.sourceFilename
    ELSE AfterLastSlash(asset.sourceFilename)

\* the loops of handleAfterProcessAssets have visited every asset, no stage having
\* skipped an entry or raised an error
LoopsDone(p) ==
    /\ pc[p] = "afterProcess"
    /\ pending[p] = <<>>
    /\ \A i \in 1..Len(cycle[p].sets) : cycle[p].sets[i].hook = "object"

\* the output name an entry of the store points to
NameIn(v) == IF v.t = "obj" THEN Prop(v.e, << "s", "r", "c" >>).s ELSE v.s

\* C22: post-processing visits the assets in the host's order of enumeration; for each
\* asset set is called once for each index key that maps to the asset's name and, when
\* there is none, once with the fallback key (the recorded source filename, its
\* basename unless the keys are context-relative, or else the asset's name); when two
\* assets give the same key the entry of the later one is the one in the store.
C22_PostProcessingOrder ==
    \A p \in Procs :
        LET log == cycle[p].sets
            as == compilation[p].assets
        IN /\ pc[p] = "afterProcess" =>
                 \A i, j \in 1..Len(log) :
                    i < j => PlaceOf(as, log[i].name) <= PlaceOf(as, log[j].name)
           /\ LoopsDone(p) =>
                 /\ \A n \in 1..Len(as) :
                       LET keys == IndexKeysFor(assetNames[p], as[n].name)
                           mine == {i \in 1..Len(log) : log[i].name = as[n].name}
                       IN IF keys # {}
                          THEN /\ \A k \in keys : Cardinality(CallsFor(log, as[n].name, k)) = 1
                               /\ Cardinality(mine) = Cardinality(keys)
                          ELSE /\ Cardinality(mine) = 1
                               /\ \A i \in mine : log[i].key = ExpectedFallback(options[p], as[n])
                 /\ \A i \in 1..Len(log) :
                       LET k == ExpectedKey(log[i].key)
                           later == {j \in 1..Len(log) : ExpectedKey(log[j].key) = k}
                           lastOne == CHOOSE j \in later : \A j2 \in later : j2 <= j
                       IN /\ HasOwn(assets[p], k)
                          /\ NameIn(Prop(assets[p], k)) = log[lastOne].name

\* two assets gave the key m.j, and the store maps it to the later one, y.j
C22_Witness ==
    /\ LoopsDone(1)
    /\ ~options[1].contextRelativeKeys
    /\ Cardinality({i \in 1..Len(cycle[1].sets) : cycle[1].sets[i].key = fMain}) = 2
    /\ HasOwn(assets[1], fMain)
    /\ NameIn(Prop(assets[1], fMain)) = fOther

\* the assets of the options apply finalizes: those of the stage that replaced the
\* options, or else the object that is the store
OptionsAssets(p) ==
    IF last[p].info[3].replaces THEN last[p].info[3].assets ELSE last[p].before

\* C23: when apply has finalized the options, every entry that was in the manifest
\* before apply is in the store, and a key that is both in the manifest and in
\* options.assets has the value of options.assets, also when a stage of the options
\* hook has replaced the options by ones with another assets object.
C23_ApplyKeepsEntries ==
    \A p \in Procs :
        (last[p].op = "apply" /\ "apply" \in fired[p]) =>
            /\ \A k \in KeysOf(last[p].before) : HasOwn(assets[p], k)
            /\ \A k \in KeysOf(OptionsAssets(p)) : HasOwn(assets[p], k)
            /\ \A k \in KeysOf(last[p].before) \cap KeysOf(OptionsAssets(p)) :
                  Prop(assets[p], k) = Prop(OptionsAssets(p), k)

\* the set call last made was made by handleAfterProcessAssets for an asset
SetForAsset(p) == last[p].op = "set" /\ last[p].asset.some

\* C24: with integrity enabled, recordSubresourceIntegrity has stored a digest on every
\* asset before handleAfterProcessAssets builds its entry, so that no entry built from
\* an asset of the compilation has the empty string for its integrity.
C24_DigestBeforeEntry ==
    \A p \in Procs :
        (options[p].integrity /\ SetForAsset(p) /\ ~last[p].threw
           /\ last[p].hook.kind = "object") =>
            /\ HasDigest(last[p].asset)
            /\ LET stored == Prop(assets[p], WrittenKey(p))
               IN /\ stored.t = "obj"
                  /\ Prop(stored.e, << "i", "n", "t", "e", "g", "r", "i", "t", "y" >>)
                        # Str(<<>>)

\* C25: currentAsset is null whenever no set call for an asset is under way: it is the
\* asset being processed in the set call handleAfterProcessAssets makes for one key of
\* that asset, and null again once that call has ended and when handleAfterProcessAssets
\* has ended, by an error of a customize stage too; so a set call made outside
\* post-processing finds it null.
C25_CurrentAssetNull ==
    \A p \in Procs :
        /\ SetForAsset(p) =>
              /\ last[p].value.t = "str"
              /\ last[p].asset.name = last[p].value.s
        /\ pc[p] = "afterProcess" => currentAsset[p] = NoAsset
        /\ pc[p] # "afterProcess" => currentAsset[p] = NoAsset

====
